---------------------------- MODULE Spec2Model ----------------------------
(***************************************************************************)
(* code-sentinel: the declarative pattern engine.                          *)
(*                                                                         *)
(*   builders.ts   MatchConfig -> RegExp[]           (buildPattern)        *)
(*   compiler.ts   PatternDefinition -> CompiledPattern, the module-level  *)
(*                 compiledCache, validateDefinitions                      *)
(*   core.ts       analyzeWithPatterns: the scan loop                      *)
(*   report.ts     generateHtmlReport: the quality score                   *)
(*   index.ts      the CallToolRequestSchema handler                       *)
(*                                                                         *)
(* Text is a sequence of one-character strings.  A RegExp object is a      *)
(* record [re, flags]; its mutable lastIndex lives in the variable         *)
(* lastIndex, keyed by the matcher's place in the cache.                   *)
(***************************************************************************)
EXTENDS Integers, Sequences, FiniteSets, TLC

\* ------------------------------------------------------------------ bounds

\* Longest buffer drawn from the scan alphabet.
MaxLen == 3
\* API calls (or tool requests handled) in one behaviour.
MaxCalls == 3
\* Largest per-severity count (and strength count) of a summary.
MaxCount == 4
\* Tool requests that may be queued at the same time.
MaxPending == 2
\* Most repetitions of one line in a generated buffer.
MaxRepeat == 2
\* Longest list of inconsistencies, and of suggestions, handed to
\* generateActionItems.
MaxFindings == 2
\* Longest security list of a generated rule table.
MaxDefinitions == 2
\* Most pieces of text joined into a buffer of the ordering scans.
MaxPieces == 3

\* -------------------------------------------------------------------- text

Chars(str) == [i \in 1..Len(str) |-> SubSeq(str, i, i)]

Max(a, b) == IF a >= b THEN a ELSE b
Min(a, b) == IF a <= b THEN a ELSE b

\* String.prototype.substring(a, b) for 0 <= a <= b, offsets 0-based.
Substring(s, a, b) == SubSeq(s, a + 1, Min(b, Len(s)))

RECURSIVE Concat(_)
Concat(seqs) == IF seqs = <<>> THEN <<>> ELSE Head(seqs) \o Concat(Tail(seqs))

\* A sequence without its repeated elements, first occurrences kept.
Dedup(q) ==
  LET first == {k \in 1..Len(q) : \A j \in 1..(k - 1) : q[j] # q[k]}
  IN [n \in 1..Cardinality(first) |->
        q[CHOOSE k \in first : Cardinality({j \in first : j < k}) = n - 1]]

\* The white space of \s and of String.prototype.trim.
WhiteSpace == {" ", "\t", "\n", "\r"}
LineTerminators == {"\n", "\r"}
Digits == {"0", "1", "2", "3", "4", "5", "6", "7", "8", "9"}
LowerLetters ==
  {"a", "b", "c", "d", "e", "f", "g", "h", "i", "j", "k", "l", "m",
   "n", "o", "p", "q", "r", "s", "t", "u", "v", "w", "x", "y", "z"}
UpperLetters ==
  {"A", "B", "C", "D", "E", "F", "G", "H", "I", "J", "K", "L", "M",
   "N", "O", "P", "Q", "R", "S", "T", "U", "V", "W", "X", "Y", "Z"}
LowerSeq == Chars("abcdefghijklmnopqrstuvwxyz")
UpperSeq == Chars("ABCDEFGHIJKLMNOPQRSTUVWXYZ")
\* \w
WordChars == LowerLetters \cup UpperLetters \cup Digits \cup {"_"}
\* The backquote character, written as an atom of its own.
Backquote == "BACKQUOTE"
Quotes == {"'", "\"", Backquote}

\* Canonicalize of the i flag: upper-case letters fold to lower case.
Fold(c) ==
  IF c \in UpperLetters
  THEN LowerSeq[CHOOSE k \in 1..26 : UpperSeq[k] = c]
  ELSE c

\* -------------------------------------------------------- regular expressions
\* The pattern of a RegExp as a tree.  Ends(r, s, i, fl) lists, in the
\* backtracking order of the ECMAScript matcher, the offsets at which a match
\* of r that starts at offset i of s can end; the first one is the match.

Chr(S) == [t |-> "chr", s |-> S]
NChr(S) == [t |-> "nchr", s |-> S]
Dot == [t |-> "dot"]
Cat(parts) == [t |-> "seq", p |-> parts]
Alt(parts) == [t |-> "alt", p |-> parts]
Rep(r, lo, hi, lazy) == [t |-> "rep", r |-> r, lo |-> lo, hi |-> hi, lazy |-> lazy]
WordB == [t |-> "wordb"]
Eol == [t |-> "eol"]
NLook(r) == [t |-> "nla", r |-> r]
\* ^
Bol == [t |-> "bol"]
\* pre(grp)mid\1post: a capturing group and the back-reference to it.
Echo(pre, grp, mid, post) ==
  [t |-> "echo", pre |-> pre, grp |-> grp, mid |-> mid, post |-> post]
\* A source that new RegExp rejects with a SyntaxError.
BadSource == [t |-> "invalid"]

Lit(str) == Cat([k \in 1..Len(str) |-> Chr({SubSeq(str, k, k)})])
\* escapeRegex(x) spliced into a source matches x literally.
LitSeq(chars) == Cat([k \in 1..Len(chars) |-> Chr({chars[k]})])
Star(r) == Rep(r, 0, -1, FALSE)
Plus(r) == Rep(r, 1, -1, FALSE)
Opt(r) == Rep(r, 0, 1, FALSE)
LazyStar(r) == Rep(r, 0, -1, TRUE)
AtLeast(r, n) == Rep(r, n, -1, FALSE)
Ws == Chr(WhiteSpace)
WsStar == Star(Ws)
Word == Chr(WordChars)
AnyChar == NChr({})

CharIn(c, S, fl) ==
  IF "i" \in fl THEN \E d \in S : Fold(d) = Fold(c) ELSE c \in S

IsWordAt(s, k) == k >= 1 /\ k <= Len(s) /\ s[k] \in WordChars

RECURSIVE Ends(_, _, _, _)
RECURSIVE EndsFrom(_, _, _, _, _)
RECURSIVE CatEnds(_, _, _, _, _)
RECURSIVE AltEnds(_, _, _, _, _)
RECURSIVE RepEnds(_, _, _, _, _)
RECURSIVE RepFrom(_, _, _, _, _, _)

\* The ends of r from each start of the list starts[k..], in order.
EndsFrom(r, s, starts, k, fl) ==
  IF k > Len(starts) THEN <<>>
  ELSE Ends(r, s, starts[k], fl) \o EndsFrom(r, s, starts, k + 1, fl)

CatEnds(parts, k, s, starts, fl) ==
  IF k > Len(parts) \/ starts = <<>> THEN starts
  ELSE CatEnds(parts, k + 1, s, Dedup(EndsFrom(parts[k], s, starts, 1, fl)), fl)

AltEnds(parts, k, s, i, fl) ==
  IF k > Len(parts) THEN <<>>
  ELSE Ends(parts[k], s, i, fl) \o AltEnds(parts, k + 1, s, i, fl)

RepFrom(r, s, starts, k, n, fl) ==
  IF k > Len(starts) THEN <<>>
  ELSE RepEnds(r, s, starts[k], n, fl) \o RepFrom(r, s, starts, k + 1, n, fl)

\* A repeated one-character atom: the run of characters from offset i that
\* the atom accepts, and the ends the repetition allows within it, longest
\* first when greedy.
RunEnds(r, s, i, fl) ==
  LET stops == {j \in i..Len(s) : j = Len(s) \/ Ends(r.r, s, j, fl) = <<>>}
      run == (CHOOSE j \in stops : \A h \in stops : j <= h) - i
      most == IF r.hi = -1 THEN run ELSE Min(run, r.hi)
      count == IF most >= r.lo THEN most - r.lo + 1 ELSE 0
  IN [n \in 1..count |-> IF r.lazy THEN i + r.lo + n - 1 ELSE i + most - n + 1]

\* RepeatMatcher: n iterations done so far; once lo is reached an iteration
\* that matches the empty string is refused.
RepEnds(r, s, i, n, fl) ==
  IF n = 0 /\ r.r.t \in {"chr", "nchr", "dot"} THEN RunEnds(r, s, i, fl)
  ELSE LET once == Ends(r.r, s, i, fl)
           next == SelectSeq(once, LAMBDA e : n < r.lo \/ e # i)
           more == IF r.hi # -1 /\ n >= r.hi THEN <<>>
                   ELSE RepFrom(r, s, next, 1,
                                IF r.hi = -1 THEN Min(n + 1, r.lo) ELSE n + 1, fl)
           stop == IF n >= r.lo THEN <<i>> ELSE <<>>
       IN Dedup(IF r.lazy THEN stop \o more ELSE more \o stop)

\* BackreferenceMatcher: the text the group captured, s[a+1..g], read again
\* at offset m, letters compared through Canonicalize.
EchoedAt(s, a, g, m, fl) ==
  /\ m + (g - a) <= Len(s)
  /\ \A k \in 1..(g - a) : CharIn(s[m + k], {s[a + k]}, fl)

EchoAfterGroup(r, s, a, g, fl) ==
  LET ms == Ends(r.mid, s, g, fl)
  IN Concat([k \in 1..Len(ms) |->
               IF EchoedAt(s, a, g, ms[k], fl)
               THEN Ends(r.post, s, ms[k] + (g - a), fl) ELSE <<>>])

EchoAfterPre(r, s, a, fl) ==
  LET gs == Ends(r.grp, s, a, fl)
  IN Concat([k \in 1..Len(gs) |-> EchoAfterGroup(r, s, a, gs[k], fl)])

EchoEnds(r, s, i, fl) ==
  LET as == Ends(r.pre, s, i, fl)
  IN Dedup(Concat([k \in 1..Len(as) |-> EchoAfterPre(r, s, as[k], fl)]))

Ends(r, s, i, fl) ==
  CASE r.t = "chr" ->
         IF i < Len(s) /\ CharIn(s[i + 1], r.s, fl) THEN <<i + 1>> ELSE <<>>
    [] r.t = "nchr" ->
         IF i < Len(s) /\ ~CharIn(s[i + 1], r.s, fl) THEN <<i + 1>> ELSE <<>>
    [] r.t = "dot" ->
         IF i < Len(s) /\ ("s" \in fl \/ s[i + 1] \notin LineTerminators)
         THEN <<i + 1>> ELSE <<>>
    [] r.t = "seq" -> CatEnds(r.p, 1, s, <<i>>, fl)
    [] r.t = "alt" -> Dedup(AltEnds(r.p, 1, s, i, fl))
    [] r.t = "rep" -> RepEnds(r, s, i, 0, fl)
    [] r.t = "wordb" ->
         IF IsWordAt(s, i) # IsWordAt(s, i + 1) THEN <<i>> ELSE <<>>
    [] r.t = "eol" ->
         IF i = Len(s) \/ ("m" \in fl /\ s[i + 1] \in LineTerminators)
         THEN <<i>> ELSE <<>>
    [] r.t = "nla" -> IF Ends(r.r, s, i, fl) = <<>> THEN <<i>> ELSE <<>>
    [] r.t = "bol" ->
         IF i = 0 \/ ("m" \in fl /\ s[i] \in LineTerminators) THEN <<i>> ELSE <<>>
    [] r.t = "echo" -> EchoEnds(r, s, i, fl)

\* ------------------------------------------------------------ RegExp objects

Has(rec, fld) == fld \in DOMAIN rec

RegExpFlags == {"d", "g", "i", "m", "s", "u", "v", "y"}

ValidFlags(str) ==
  /\ \A k \in 1..Len(str) : SubSeq(str, k, k) \in RegExpFlags
  /\ \A j, k \in 1..Len(str) : j # k => SubSeq(str, j, j) # SubSeq(str, k, k)

SyntaxError == [t |-> "SyntaxError"]

\* Whether the pattern tree holds a source the RegExp constructor rejects.
RECURSIVE Rejected(_)
Rejected(r) ==
  CASE r.t = "invalid" -> TRUE
    [] r.t \in {"seq", "alt"} -> \E k \in 1..Len(r.p) : Rejected(r.p[k])
    [] r.t \in {"rep", "nla"} -> Rejected(r.r)
    [] r.t = "echo" ->
         Rejected(r.pre) \/ Rejected(r.grp) \/ Rejected(r.mid) \/ Rejected(r.post)
    [] OTHER -> FALSE

\* new RegExp(source, flags), and a regular expression literal.
NewRegExp(re, flagStr) ==
  IF Rejected(re) \/ ~ValidFlags(flagStr) THEN SyntaxError
  ELSE [t |-> "RegExp", re |-> re,
        flags |-> {SubSeq(flagStr, k, k) : k \in 1..Len(flagStr)}]

\* ---------------------------------------------------------------- builders.ts

\* escapeRegex: the escaped text matches the text itself.
escapeRegex(str) == Lit(str)

\* names.map(escapeRegex).join('|') inside a group.
Joined(strs) ==
  IF strs = <<>> THEN Cat(<<>>)
  ELSE Alt([k \in 1..Len(strs) |-> escapeRegex(strs[k])])

\* Literals separated by \s*.
Spaced(strs) ==
  Cat([k \in 1..(2 * Len(strs) - 1) |->
         IF k % 2 = 1 THEN Lit(strs[(k + 1) \div 2]) ELSE WsStar])

QuoteChr == Chr(Quotes)
NotQuote == NChr(Quotes)
EmptyBrackets == Spaced(<<"[", "]">>)
EmptyBraces == Spaced(<<"{", "}">>)
EmptyQuotes == Cat(<<Chr({"\"", "'"}), WsStar, Chr({"\"", "'"})>>)

valueToPattern(value) ==
  CASE value = "[]" -> EmptyBrackets
    [] value = "{}" -> EmptyBraces
    [] value \in {"null", "undefined", "true", "false", "0", "-1"} -> Lit(value)
    [] value \in {"\"\"", "''"} -> EmptyQuotes
    [] OTHER -> escapeRegex(value)

JoinedValues(values) ==
  IF values = <<>> THEN Cat(<<>>)
  ELSE Alt([k \in 1..Len(values) |-> valueToPattern(values[k])])

\* catch\s*\([^)]*\)\s*\{
CatchHead ==
  Cat(<<Lit("catch"), WsStar, Lit("("), Star(NChr({")"})), Lit(")"), WsStar, Lit("{")>>)
\* \/\*[\s\S]*?\*\/
BlockComment == Cat(<<Lit("/*"), LazyStar(AnyChar), Lit("*/")>>)
CatchEmpty == Cat(<<CatchHead, WsStar, Lit("}")>>)
CatchBlockComment == Cat(<<CatchHead, WsStar, BlockComment, WsStar, Lit("}")>>)
PromiseCatchEmptyArrow == Spaced(<<".catch", "(", "(", ")", "=>", "{", "}", ")">>)
PromiseCatchEmptyParam ==
  Cat(<<Spaced(<<".catch", "(">>), WsStar, Plus(Word), WsStar,
        Spaced(<<"=>", "{", "}", ")">>)>>)

\* The construct switch with the finally case left out.
EmptyBlockWithoutFinally(construct, allowComments) ==
  CASE construct = "catch" -> <<NewRegExp(CatchEmpty, "g")>>
    [] construct = ".catch" ->
         <<NewRegExp(PromiseCatchEmptyArrow, "g"), NewRegExp(PromiseCatchEmptyParam, "g")>>
    [] construct \in {".then", ".finally"} ->
         <<NewRegExp(Spaced(<<construct, "(", "(", ")", "=>", "{", "}", ")">>), "g")>>
    [] OTHER -> <<>>

EmptyBlockFor(construct, allowComments) ==
  CASE construct = "catch" ->
         <<NewRegExp(CatchEmpty, "g")>>
         \o (IF allowComments
             THEN <<NewRegExp(Cat(<<CatchHead, WsStar, Lit("//"), Star(NChr({"\n"})),
                                    WsStar, Lit("}")>>), "g"),
                    NewRegExp(CatchBlockComment, "g")>>
             ELSE <<>>)
    [] construct = "finally" -> <<NewRegExp(Spaced(<<"finally", "{", "}">>), "g")>>
    [] construct = ".catch" ->
         <<NewRegExp(PromiseCatchEmptyArrow, "g"),
           NewRegExp(PromiseCatchEmptyParam, "g"),
           NewRegExp(Cat(<<Spaced(<<".catch", "(", "function", "(">>),
                           Star(NChr({")"})), Spaced(<<")", "{", "}", ")">>)>>), "g")>>
    [] construct = ".then" ->
         <<NewRegExp(Spaced(<<".then", "(", "(", ")", "=>", "{", "}", ")">>), "g"),
           NewRegExp(Cat(<<Spaced(<<".then", "(">>), WsStar, Plus(Word), WsStar,
                           Spaced(<<"=>", "{", "}", ")">>)>>), "g")>>
    [] construct = ".finally" ->
         <<NewRegExp(Spaced(<<".finally", "(", "(", ")", "=>", "{", "}", ")">>), "g")>>
    [] OTHER -> <<>>

buildEmptyBlock(config) ==
  Concat([k \in 1..Len(config.constructs) |->
            EmptyBlockFor(config.constructs[k],
                          Has(config, "allowComments") /\ config.allowComments)])

buildFunctionCall(config) ==
  LET namesPattern == Joined(config.names)
  IN <<NewRegExp(Cat(<<WordB, namesPattern, WsStar, Lit("(")>>), "gi")>>
     \o (IF Has(config, "methods") /\ config.methods
         THEN <<NewRegExp(Cat(<<Lit("."), namesPattern, WsStar, Lit("(")>>), "gi")>>
         ELSE <<>>)
     \o (IF Has(config, "constructors") /\ config.constructors
         THEN <<NewRegExp(Cat(<<Lit("new"), Plus(Ws), namesPattern, WsStar, Lit("(")>>),
                          "gi")>>
         ELSE <<>>)

\* withComment words are joined into the source unescaped: a word is regular
\* expression source, and a lone metacharacter makes the source unparsable.
CommentWordSource(word) ==
  IF word \in {"(", ")", "[", "*", "+", "?"} THEN BadSource ELSE Lit(word)

buildReturnsOnly(config) ==
  LET valuesPattern == JoinedValues(config.values)
      head == <<Lit("return"), Plus(Ws), valuesPattern, WsStar, Opt(Lit(";"))>>
  IN IF Has(config, "withComment") /\ Len(config.withComment) > 0
     THEN <<NewRegExp(Cat(head \o <<WsStar, Lit("//"), WsStar, LazyStar(Dot),
                                     Alt([k \in 1..Len(config.withComment) |->
                                            CommentWordSource(config.withComment[k])])>>),
                      "gi")>>
     ELSE <<NewRegExp(Cat(head), "gi")>>

buildContainsText(config) ==
  LET flags == IF Has(config, "caseInsensitive") /\ config.caseInsensitive = FALSE
               THEN "g" ELSE "gi"
      termsPattern == Joined(config.terms)
      context == IF Has(config, "context") THEN config.context ELSE "any"
      quoted(q) == Cat(<<Chr({q}), Star(NotQuote), termsPattern, Star(NotQuote), Chr({q})>>)
  IN (IF context \in {"single_line_comment", "comment", "any"}
      THEN <<NewRegExp(Cat(<<Lit("//"), LazyStar(Dot), termsPattern>>), flags)>>
      ELSE <<>>)
     \o (IF context \in {"block_comment", "comment", "any"}
         THEN <<NewRegExp(Cat(<<Lit("/*"), LazyStar(AnyChar), termsPattern,
                                LazyStar(AnyChar), Lit("*/")>>), flags)>>
         ELSE <<>>)
     \o (IF context \in {"string", "any"}
         THEN <<NewRegExp(Alt(<<quoted("'"), quoted("\""), quoted(Backquote)>>), flags)>>
         ELSE <<>>)

\* A matcher for each operator, whatever follows it.
FallbackToAnything(config) ==
  [k \in 1..Len(config.operators) |->
     NewRegExp(Cat(<<escapeRegex(config.operators[k]), WsStar>>), "g")]

buildFallbackValue(config) ==
  LET valuesPattern == JoinedValues(config.values)
  IN [k \in 1..Len(config.operators) |->
        NewRegExp(Cat(<<escapeRegex(config.operators[k]), WsStar, valuesPattern>>), "g")]

buildAssignmentPattern(config) ==
  LET keysPattern == Joined(config.keys)
      operators == IF Has(config, "operators") THEN config.operators ELSE <<"=", ":">>
      withValues == Has(config, "values") /\ Len(config.values) > 0
  IN [k \in 1..Len(operators) |->
        IF withValues
        THEN NewRegExp(Cat(<<keysPattern, WsStar, escapeRegex(operators[k]), WsStar,
                             QuoteChr, Star(NotQuote), Joined(config.values),
                             Star(NotQuote), QuoteChr>>), "gi")
        ELSE NewRegExp(Cat(<<keysPattern, WsStar, escapeRegex(operators[k]), WsStar,
                             QuoteChr, AtLeast(NotQuote, 8), QuoteChr>>), "gi")]

buildChainedAccess(config) ==
  LET op == IF config.operator = "?." THEN Lit("?.") ELSE Lit(".")
  IN <<NewRegExp(AtLeast(Cat(<<op, Plus(Word)>>), config.minDepth), "g")>>

\* No matcher for a catch handler.
CatchHandlerUnbuilt(config) == <<>>

buildCatchHandler(config) ==
  CASE config.behavior = "empty" -> <<NewRegExp(CatchEmpty, "g")>>
    [] config.behavior = "comment_only" ->
         <<NewRegExp(Cat(<<CatchHead, WsStar, Lit("//"), LazyStar(Dot), WsStar, Lit("}")>>),
                     "gs"),
           NewRegExp(CatchBlockComment, "g")>>
    [] config.behavior = "log_only" ->
         <<NewRegExp(Cat(<<CatchHead, WsStar, Alt(<<Lit("console.log"), Lit("print")>>),
                           WsStar, Lit("("), Star(NChr({")"})), Lit(")"), WsStar,
                           Opt(Lit(";")), WsStar, Lit("}")>>), "g")>>
    [] config.behavior = "returns_value" ->
         <<NewRegExp(Cat(<<CatchHead, Star(NChr({"}"})), Lit("return"), Plus(Ws),
                           Alt(<<Lit("null"), Lit("undefined"), Lit("false"), Lit("true"),
                                 Lit("''"), Lit("\"\""), EmptyBrackets, EmptyBraces>>),
                           WsStar, Opt(Lit(";")), WsStar, Lit("}")>>), "g")>>
    [] config.behavior = "ignores_error" ->
         <<NewRegExp(Spaced(<<"catch", "(", "_", ")">>), "g")>>
    [] OTHER -> <<>>

DefaultSilentValues == <<"null", "undefined", "false", "true", "''", "\"\"">>

buildPromiseCatch(config) ==
  CASE config.behavior = "empty" ->
         <<NewRegExp(PromiseCatchEmptyArrow, "g"), NewRegExp(PromiseCatchEmptyParam, "g")>>
    [] config.behavior = "returns_silent" ->
         LET values == IF Has(config, "silentValues") THEN config.silentValues
                       ELSE DefaultSilentValues
         IN <<NewRegExp(Cat(<<Spaced(<<".catch", "(", "(", ")", "=>">>), WsStar,
                              JoinedValues(values), WsStar, Lit(")")>>), "g")>>
    [] config.behavior = "ignores_param" ->
         <<NewRegExp(Cat(<<Spaced(<<".catch", "(", "_", "=>">>), WsStar, Opt(Lit("{")),
                           WsStar, Opt(Lit("}")), WsStar, Lit(")")>>), "g")>>
    [] OTHER -> <<>>

buildCommentMarker(config) ==
  LET markersPattern == Joined(config.markers)
      style == IF Has(config, "style") THEN config.style ELSE "any"
  IN (IF style \in {"single", "any"}
      THEN <<NewRegExp(Cat(<<Lit("//"), WsStar, markersPattern,
                             Alt(<<Lit(":"), Lit("."), Ws>>), Star(Dot), Eol>>), "gim")>>
      ELSE <<>>)
     \o (IF style \in {"block", "any"}
         THEN <<NewRegExp(Cat(<<Lit("/*"), LazyStar(AnyChar), markersPattern,
                                LazyStar(AnyChar), Lit("*/")>>), "gi")>>
         ELSE <<>>)

buildStringLiteral(config) ==
  LET flags == IF Has(config, "caseInsensitive") /\ config.caseInsensitive
               THEN "gi" ELSE "g"
  IN <<NewRegExp(Cat(<<QuoteChr, Opt(Star(NotQuote)), Joined(config.patterns),
                       Opt(Star(NotQuote)), QuoteChr>>), flags)>>

AlphaNum == LowerLetters \cup UpperLetters \cup Digits
SecretKeyNames ==
  Alt(<<Cat(<<Lit("api"), Opt(Chr({"_", "-"})), Lit("key")>>), Lit("apikey"),
        Lit("secret"), Lit("password"), Lit("passwd"), Lit("pwd"), Lit("token"),
        Cat(<<Lit("auth"), Opt(Chr({"_", "-"})), Lit("token")>>),
        Cat(<<Lit("access"), Opt(Chr({"_", "-"})), Lit("token")>>),
        Cat(<<Lit("private"), Opt(Chr({"_", "-"})), Lit("key")>>)>>)
StripeKey(prefix) ==
  Cat(<<Lit(prefix), Alt(<<Lit("live"), Lit("test")>>), Lit("_"), AtLeast(Chr(AlphaNum), 24)>>)

\* sk-[A-Za-z0-9]{48,}: the least number of characters after "sk-".
OpenAiKeyLength == 48

buildSecretPattern(config) ==
  CASE config.kind = "generic" ->
         <<NewRegExp(Cat(<<SecretKeyNames, WsStar, Chr({":", "="}), WsStar, QuoteChr,
                           AtLeast(NotQuote, 8), QuoteChr>>), "gi")>>
    [] config.kind = "github" ->
         <<NewRegExp(Cat(<<Alt(<<Lit("ghp"), Lit("gho"), Lit("ghu"), Lit("ghs"),
                                 Lit("ghr")>>), Lit("_"),
                           AtLeast(Chr(AlphaNum \cup {"_"}), 36)>>), "g")>>
    [] config.kind = "openai" ->
         <<NewRegExp(Cat(<<Lit("sk-"), AtLeast(Chr(AlphaNum), OpenAiKeyLength)>>), "g")>>
    [] config.kind = "aws" ->
         <<NewRegExp(Cat(<<Lit("AKIA"), Rep(Chr(Digits \cup UpperLetters), 16, 16, FALSE)>>),
                     "g")>>
    [] config.kind = "stripe" ->
         <<NewRegExp(StripeKey("sk_"), "g"), NewRegExp(StripeKey("pk_"), "g")>>
    [] config.kind = "custom" ->
         IF Has(config, "customPattern") /\ config.customPattern.t # "emptystring"
         THEN <<NewRegExp(config.customPattern, "g")>>
         ELSE <<>>
    [] OTHER -> <<>>

UrlChar == NChr(WhiteSpace \cup Quotes \cup {")"})

buildUrlPattern(config) ==
  LET protocol == IF Has(config, "protocol") THEN config.protocol ELSE "any"
  IN (IF protocol \in {"http", "any"}
      THEN IF Has(config, "excludeLocalhost") /\ config.excludeLocalhost
           THEN <<NewRegExp(Cat(<<Lit("http://"),
                                  NLook(Alt(<<Lit("localhost"), Lit("127.0.0.1")>>)),
                                  Plus(UrlChar)>>), "g")>>
           ELSE <<NewRegExp(Cat(<<Lit("http://"), Plus(UrlChar)>>), "g")>>
      ELSE <<>>)
     \o (IF protocol \in {"https", "any"}
         THEN <<NewRegExp(Cat(<<Lit("https://"), Plus(UrlChar)>>), "g")>>
         ELSE <<>>)

buildSuppressionComment(config) ==
  <<NewRegExp(Cat(<<Lit("//"), WsStar, Opt(Lit("@")), Joined(config.tools)>>), "g")>>

buildTypeCast(config) ==
  <<NewRegExp(Cat(<<Lit("as"), Plus(Ws), Joined(config.targets), NLook(Word)>>), "g")>>

ComparisonFor(op) ==
  CASE op = "==" -> <<NewRegExp(Cat(<<NChr({"!", "="}), Lit("=="), NChr({"="})>>), "g")>>
    [] op = "!=" -> <<NewRegExp(Cat(<<Lit("!="), NChr({"="})>>), "g")>>
    [] op = "===" -> <<NewRegExp(Lit("==="), "g")>>
    [] op = "!==" -> <<NewRegExp(Lit("!=="), "g")>>
    [] OTHER -> <<>>

buildComparison(config) ==
  Concat([k \in 1..Len(config.operators) |-> ComparisonFor(config.operators[k])])

WhileTrue == Spaced(<<"while", "(", "true", ")">>)

\* A loop builder that knows while_true and infinite and not for_in.
LoopPatternWithoutForIn(config) ==
  CASE config.kind = "while_true" -> <<NewRegExp(WhileTrue, "g")>>
    [] config.kind = "infinite" ->
         <<NewRegExp(WhileTrue, "g"), NewRegExp(Spaced(<<"for", "(", ";", ";", ")">>), "g")>>
    [] OTHER -> <<>>

buildLoopPattern(config) ==
  CASE config.kind = "for_in" ->
         <<NewRegExp(Cat(<<Spaced(<<"for", "(">>), WsStar,
                           Alt(<<Lit("var"), Lit("let"), Lit("const")>>), Plus(Ws),
                           Plus(Word), Plus(Ws), Lit("in"), Plus(Ws)>>), "g")>>
    [] config.kind = "while_true" -> <<NewRegExp(WhileTrue, "g")>>
    [] config.kind = "infinite" ->
         <<NewRegExp(WhileTrue, "g"), NewRegExp(Spaced(<<"for", "(", ";", ";", ")">>), "g")>>
    [] OTHER -> <<>>

\* The empty string as a pattern source: new RegExp('') is /(?:)/.
EmptyString == [t |-> "emptystring"]

buildRawRegex(config) ==
  <<NewRegExp(IF config.pattern.t = "emptystring" THEN Cat(<<>>) ELSE config.pattern,
              IF Has(config, "flags") /\ config.flags # "" THEN config.flags ELSE "g")>>

MatchTypes ==
  {"empty_block", "function_call", "returns_only", "contains_text", "fallback_value",
   "assignment_pattern", "chained_access", "catch_handler", "promise_catch",
   "comment_marker", "string_literal", "secret_pattern", "url_pattern",
   "suppression_comment", "type_cast", "comparison", "loop_pattern", "raw_regex"}

\* The switch of buildPattern: the RegExp list, each entry a RegExp or the
\* SyntaxError its constructor raised.
Dispatch(config) ==
  CASE config.type = "empty_block" -> buildEmptyBlock(config)
    [] config.type = "function_call" -> buildFunctionCall(config)
    [] config.type = "returns_only" -> buildReturnsOnly(config)
    [] config.type = "contains_text" -> buildContainsText(config)
    [] config.type = "fallback_value" -> buildFallbackValue(config)
    [] config.type = "assignment_pattern" -> buildAssignmentPattern(config)
    [] config.type = "chained_access" -> buildChainedAccess(config)
    [] config.type = "catch_handler" -> buildCatchHandler(config)
    [] config.type = "promise_catch" -> buildPromiseCatch(config)
    [] config.type = "comment_marker" -> buildCommentMarker(config)
    [] config.type = "string_literal" -> buildStringLiteral(config)
    [] config.type = "secret_pattern" -> buildSecretPattern(config)
    [] config.type = "url_pattern" -> buildUrlPattern(config)
    [] config.type = "suppression_comment" -> buildSuppressionComment(config)
    [] config.type = "type_cast" -> buildTypeCast(config)
    [] config.type = "comparison" -> buildComparison(config)
    [] config.type = "loop_pattern" -> buildLoopPattern(config)
    [] config.type = "raw_regex" -> buildRawRegex(config)
    [] OTHER -> <<>>

\* A default branch that returns [] without console.warn.
NeverWarns(config) == FALSE

\* Whether the default branch is taken, which calls console.warn.
WarnsUnknownType(config) == config.type \notin MatchTypes

\* buildPattern(config): threw is a SyntaxError leaving the call, patterns the
\* returned RegExp[] and warned whether console.warn was called.
BuildResult(made, warned) ==
  LET threw == \E k \in 1..Len(made) : made[k].t = "SyntaxError"
  IN [threw |-> threw,
      patterns |-> IF threw THEN <<>> ELSE made,
      warned |-> warned]

buildPattern(config) == BuildResult(Dispatch(config), WarnsUnknownType(config))

\* ---------------------------------------------------------------- compiler.ts

\* The order in which getCompiledPatterns fills the Map, which is also the
\* order of getDefinitions.
CategoryOrder == <<"security", "deceptive", "placeholder", "error">>
\* The Category type.
Categories == {"security", "error", "deceptive", "placeholder", "strength"}
Severities == {"critical", "high", "medium", "low", "info"}

\* compileDefinition(definition): the definition with match replaced by the
\* built RegExp list.  description and suggestion are copied like title and
\* are left out of the records here.
CompiledFrom(definition, built) ==
  LET base == [id |-> definition.id, title |-> definition.title,
               severity |-> definition.severity, category |-> definition.category,
               patterns |-> built.patterns]
  IN [threw |-> built.threw,
      warned |-> built.warned,
      compiled |-> IF Has(definition, "verification")
                   THEN base @@ [verification |-> definition.verification]
                   ELSE base]

compileDefinition(definition) == CompiledFrom(definition, buildPattern(definition.match))

\* compileCategory(definitions) == definitions.map(compileDefinition): the
\* first SyntaxError leaves the call; warnings counts the console.warn calls
\* made until then.
MappedFrom(each) ==
  LET bad == {k \in 1..Len(each) : each[k].threw}
      upTo == IF bad = {} THEN Len(each)
              ELSE CHOOSE k \in bad : \A j \in bad : k <= j
  IN [threw |-> bad # {},
      warnings |-> Cardinality({k \in 1..upTo : each[k].warned}),
      compiled |-> [k \in 1..Len(each) |-> each[k].compiled]]

compileCategory(definitions) ==
  MappedFrom([k \in 1..Len(definitions) |-> compileDefinition(definitions[k])])

\* compiledCache = null.
NullCache == [isNull |-> TRUE, map |-> <<>>]

\* The cache build of getCompiledPatterns (lines 460-466): compiledCache is
\* assigned the new Map first, then the categories are set one by one, so a
\* SyntaxError in category k leaves a Map holding the categories before k.
CacheFrom(cc) ==
  LET bad == {k \in 1..Len(CategoryOrder) : cc[k].threw}
      done == IF bad = {} THEN Len(CategoryOrder)
              ELSE (CHOOSE k \in bad : \A j \in bad : k <= j) - 1
      upTo == IF bad = {} THEN done ELSE done + 1
      warnedIn(k) == cc[k].warnings
  IN [threw |-> bad # {},
      warnings |-> LET sum[k \in 0..upTo] == IF k = 0 THEN 0 ELSE sum[k - 1] + warnedIn(k)
                   IN sum[upTo],
      cache |-> [isNull |-> FALSE,
                 map |-> [c \in {CategoryOrder[k] : k \in 1..done} |->
                            cc[CHOOSE k \in 1..done : CategoryOrder[k] = c].compiled]]]

BuildCache(table) ==
  CacheFrom([k \in 1..Len(CategoryOrder) |-> compileCategory(table[CategoryOrder[k]])])

\* Every RegExp of a freshly built cache has lastIndex 0.
FreshLastIndex(cache) ==
  [c \in DOMAIN cache.map |->
     [r \in 1..Len(cache.map[c]) |->
        [k \in 1..Len(cache.map[c][r].patterns) |-> 0]]]

\* A clearPatternCache that leaves the cache as it is.
KeepCache(cache) == cache

\* clearPatternCache(): compiledCache = null.
clearPatternCache(cache) == NullCache

\* A getCompiledPatterns that builds on every call.
AlwaysBuild(cache) == TRUE

\* if (!compiledCache): whether getCompiledPatterns builds the cache.
NeedsBuild(cache) == cache.isNull

\* No category argument.
NoCategory == "(none)"

\* getCompiledPatterns(category?) on the module state (cache, li): the state
\* it leaves, whether it threw, and what it returned.
RulesOf(cache, category) ==
  IF category = NoCategory
  THEN Concat([k \in 1..Len(CategoryOrder) |->
                 IF CategoryOrder[k] \in DOMAIN cache.map
                 THEN cache.map[CategoryOrder[k]] ELSE <<>>])
  ELSE IF category \in DOMAIN cache.map THEN cache.map[category]
  ELSE <<>>

\* The call on an unbuilt cache, b being the build it runs.
GetBuilding(b, category) ==
  [cache |-> b.cache,
   lastIndex |-> FreshLastIndex(b.cache),
   built |-> TRUE,
   threw |-> b.threw,
   warnings |-> b.warnings,
   result |-> IF b.threw THEN <<>> ELSE RulesOf(b.cache, category)]

\* The call on a built cache.
GetCached(cache, li, category) ==
  [cache |-> cache,
   lastIndex |-> li,
   built |-> FALSE,
   threw |-> FALSE,
   warnings |-> 0,
   result |-> RulesOf(cache, category)]

getCompiledPatterns(table, cache, li, category) ==
  IF NeedsBuild(cache) THEN GetBuilding(BuildCache(table), category)
  ELSE GetCached(cache, li, category)

\* getDefinitions(): all definitions, in category order.
getDefinitions(table) ==
  Concat([k \in 1..Len(CategoryOrder) |-> table[CategoryOrder[k]]])

\* Errors that leave out the definitions that compile to no matcher.
ErrorsIgnoringEmpty(def, repeated, c) ==
  (IF repeated THEN <<[kind |-> "duplicate", id |-> def.id]>> ELSE <<>>)
  \o (IF c.threw THEN <<[kind |-> "failed", id |-> def.id]>> ELSE <<>>)

\* The errors pushed for a definition, given whether its id was seen before
\* and what compiling it gave.
ErrorsOf(def, repeated, c) ==
  (IF repeated THEN <<[kind |-> "duplicate", id |-> def.id]>> ELSE <<>>)
  \o (IF c.threw THEN <<[kind |-> "failed", id |-> def.id]>>
      ELSE IF Len(c.compiled.patterns) = 0
      THEN <<[kind |-> "zero", id |-> def.id]>>
      ELSE <<>>)

\* A validation that compiles every definition and does not compare ids.
ValidationErrorsWithoutIdCheck(allDefs, k) ==
  ErrorsOf(allDefs[k], FALSE, compileDefinition(allDefs[k]))

\* The errors validateDefinitions pushes for the k-th definition.
ValidationErrorsAt(allDefs, k) ==
  ErrorsOf(allDefs[k], \E j \in 1..(k - 1) : allDefs[j].id = allDefs[k].id,
           compileDefinition(allDefs[k]))

ValidationOf(errors, warnings) ==
  [valid |-> Len(errors) = 0, errors |-> errors, warnings |-> warnings]

ValidationOfAll(allDefs) ==
  ValidationOf(Concat([k \in 1..Len(allDefs) |-> ValidationErrorsAt(allDefs, k)]),
               Cardinality({k \in 1..Len(allDefs) : WarnsUnknownType(allDefs[k].match)}))

validateDefinitions(table) == ValidationOfAll(getDefinitions(table))

\* -------------------------------------------------------------------- core.ts

\* The one element of a singleton set.
Only(S) == CHOOSE x \in S : TRUE

\* String.prototype.split('\n').
RECURSIVE Split(_)
Split(s) ==
  IF \A k \in 1..Len(s) : s[k] # "\n" THEN <<s>>
  ELSE LET k == CHOOSE j \in 1..Len(s) : s[j] = "\n" /\ \A h \in 1..(j - 1) : s[h] # "\n"
       IN <<SubSeq(s, 1, k - 1)>> \o Split(SubSeq(s, k + 1, Len(s)))

\* String.prototype.trim.
RECURSIVE Trim(_)
Trim(s) ==
  IF s = <<>> THEN s
  ELSE IF s[1] \in WhiteSpace THEN Trim(Tail(s))
  ELSE IF s[Len(s)] \in WhiteSpace THEN Trim(SubSeq(s, 1, Len(s) - 1))
  ELSE s

\* GetSubstitution: the replacement text with its $ patterns expanded ($$, $&,
\* $` and $'; the patterns have no capture groups, so $1 stays as written).
RECURSIVE GetSubstitution(_, _, _, _, _)
GetSubstitution(matched, str, position, replacement, k) ==
  LET refs == {j \in k..(Len(replacement) - 1) :
                 replacement[j] = "$" /\ replacement[j + 1] \in {"$", "&", Backquote, "'"}}
  IN IF refs = {} THEN SubSeq(replacement, k, Len(replacement))
     ELSE LET at == CHOOSE j \in refs : \A h \in refs : j <= h
              c == replacement[at + 1]
          IN SubSeq(replacement, k, at - 1)
             \o (CASE c = "$" -> <<"$">>
                    [] c = "&" -> matched
                    [] c = Backquote -> SubSeq(str, 1, position)
                    [] c = "'" -> SubSeq(str, position + Len(matched) + 1, Len(str)))
             \o GetSubstitution(matched, str, position, replacement, at + 2)

\* str.replace(/pat/g, replacement) for a literal pat: the occurrences of pat
\* in str, left to right without overlap, each replaced by the substitution.
RECURSIVE ReplaceAll(_, _, _, _)
ReplaceAll(str, pat, replacement, i) ==
  LET hits == {j \in i..(Len(str) - Len(pat)) : SubSeq(str, j + 1, j + Len(pat)) = pat}
  IN IF hits = {} THEN SubSeq(str, i + 1, Len(str))
     ELSE LET at == CHOOSE j \in hits : \A h \in hits : j <= h
          IN SubSeq(str, i + 1, at)
             \o GetSubstitution(pat, str, at, replacement, 1)
             \o ReplaceAll(str, pat, replacement, at + Len(pat))

MatchedValueTag == Chars("<matched_value>")
FilenameTag == Chars("<filename>")
Ellipsis == Chars("...")
\* matchedValue.substring(0, 20)
SnippetLen == 20

\* Lines 34-38: one template command with the placeholders substituted.
SubstituteCommand(cmd, matchedValue, filename) ==
  ReplaceAll(ReplaceAll(cmd, MatchedValueTag,
                        Substring(matchedValue, 0, SnippetLen) \o Ellipsis, 0),
             FilenameTag, filename, 0)

\* Lines 30-40: the verification of an Issue.
SubstituteVerification(verification, matchedValue, filename) ==
  IF Has(verification, "commands")
  THEN [verification EXCEPT !.commands =
          [k \in 1..Len(verification.commands) |->
             SubstituteCommand(verification.commands[k], matchedValue, filename)]]
  ELSE verification

\* RegExpBuiltinExec from lastIndex li: the first offset from the start at
\* which the pattern matches (only the start itself when sticky).
FirstHit(rx, s, i) ==
  LET tried == IF "y" \in rx.flags THEN {i} \cap (0..Len(s)) ELSE i..Len(s)
      hits == {j \in tried : Ends(rx.re, s, j, rx.flags) # <<>>}
  IN IF hits = {} THEN -1 ELSE CHOOSE j \in hits : \A h \in hits : j <= h

ExecAt(rx, li, s, tracked, at) ==
  IF at = -1
  THEN [found |-> FALSE, index |-> -1, end |-> -1,
        lastIndex |-> IF tracked THEN 0 ELSE li]
  ELSE [found |-> TRUE, index |-> at, end |-> Ends(rx.re, s, at, rx.flags)[1],
        lastIndex |-> IF tracked THEN Ends(rx.re, s, at, rx.flags)[1] ELSE li]

Exec(rx, li, s) ==
  ExecAt(rx, li, s, "g" \in rx.flags \/ "y" \in rx.flags,
         FirstHit(rx, s, IF "g" \in rx.flags \/ "y" \in rx.flags THEN li ELSE 0))

\* A scan that starts every matcher where its last use left it.
KeepLastIndex(li) == li

\* Line 19: regex.lastIndex = 0.
ResetLastIndex(li) == 0

\* Lines 22-56: the while loop of one matcher from lastIndex li, with the
\* matches found so far.  A global matcher whose exec leaves lastIndex where it
\* was (an empty match) repeats the same iteration for ever: diverges.
RECURSIVE MatcherLoop(_, _, _, _)
LoopStep(rx, s, li, found, m) ==
  IF ~m.found
  THEN [matches |-> found, lastIndex |-> m.lastIndex, diverges |-> FALSE]
  ELSE IF "g" \notin rx.flags
  THEN [matches |-> Append(found, m), lastIndex |-> m.lastIndex, diverges |-> FALSE]
  ELSE IF m.lastIndex = li
  THEN [matches |-> Append(found, m), lastIndex |-> li, diverges |-> TRUE]
  ELSE MatcherLoop(rx, s, m.lastIndex, Append(found, m))

MatcherLoop(rx, s, li, found) == LoopStep(rx, s, li, found, Exec(rx, li, s))

\* The line number counted through the first character of the match.
LineNumberThroughMatchStart(code, index) == Len(Split(Substring(code, 0, index + 1)))

\* Lines 24-25: the line number of a match at offset index.
LineNumber(code, index) == Len(Split(Substring(code, 0, index)))

\* Lines 24-52: the Issue pushed for one match of a matcher of pattern.
IssueOf(pattern, lines, lineNumber, matchedValue, filename) ==
  LET base == [id |-> pattern.id, category |-> pattern.category,
               severity |-> pattern.severity, title |-> pattern.title,
               line |-> lineNumber,
               code |-> Trim(IF lineNumber <= Len(lines) THEN lines[lineNumber] ELSE <<>>)]
  IN IF Has(pattern, "verification")
     THEN base @@ [verification |->
                     SubstituteVerification(pattern.verification, matchedValue, filename)]
     ELSE base

MakeIssue(pattern, code, filename, m) ==
  IssueOf(pattern, Split(code), LineNumber(code, m.index),
          Substring(code, m.index, m.end), filename)

\* The scan of the compiled patterns of one category (lines 16-58) from the
\* lastIndex values lis of their matchers: one loop result per matcher, in
\* order, up to and including a diverging one.
ScanLoops(patterns, lis, code) ==
  [r \in 1..Len(patterns) |->
     [k \in 1..Len(patterns[r].patterns) |->
        MatcherLoop(patterns[r].patterns[k], code, ResetLastIndex(lis[r][k]), <<>>)]]

\* Issues that repeat an earlier Issue of the scan left out.
ScanIssuesDeduplicated(patterns, loops, code, filename) ==
  Dedup(Concat([r \in 1..Len(patterns) |->
                  Concat([k \in 1..Len(patterns[r].patterns) |->
                            [j \in 1..Len(loops[r][k].matches) |->
                               MakeIssue(patterns[r], code, filename,
                                         loops[r][k].matches[j])]])]))

ScanIssues(patterns, loops, code, filename) ==
  Concat([r \in 1..Len(patterns) |->
            Concat([k \in 1..Len(patterns[r].patterns) |->
                      [j \in 1..Len(loops[r][k].matches) |->
                         MakeIssue(patterns[r], code, filename, loops[r][k].matches[j])]])])

\* The match (index, end) each Issue of ScanIssues was pushed for, in the
\* same order.
ScanMatches(patterns, loops) ==
  Concat([r \in 1..Len(patterns) |->
            Concat([k \in 1..Len(patterns[r].patterns) |->
                      [j \in 1..Len(loops[r][k].matches) |->
                         [index |-> loops[r][k].matches[j].index,
                          end |-> loops[r][k].matches[j].end]]])])

\* A scan that leaves the commands it substituted in the cached rule: the
\* verification of a rule that matched is overwritten by the one of its last
\* Issue.
ScanOutcomeWritingBack(g, loops, code, filename, category) ==
  LET patterns == g.result
      diverges == \E r \in 1..Len(patterns) :
                     \E k \in 1..Len(patterns[r].patterns) : loops[r][k].diverges
      after == [r \in 1..Len(patterns) |->
                  [k \in 1..Len(patterns[r].patterns) |-> loops[r][k].lastIndex]]
      found(r) == Concat([k \in 1..Len(patterns[r].patterns) |-> loops[r][k].matches])
      written(r) ==
        IF Has(patterns[r], "verification") /\ found(r) # <<>>
        THEN [patterns[r] EXCEPT !.verification =
                MakeIssue(patterns[r], code, filename,
                          found(r)[Len(found(r))]).verification]
        ELSE patterns[r]
  IN [cache |-> IF g.threw \/ diverges \/ category \notin DOMAIN g.cache.map THEN g.cache
                ELSE [g.cache EXCEPT !.map[category] =
                        [r \in 1..Len(patterns) |-> written(r)]],
      lastIndex |-> IF g.threw \/ category \notin DOMAIN g.lastIndex THEN g.lastIndex
                    ELSE [g.lastIndex EXCEPT ![category] = after],
      built |-> g.built,
      warnings |-> g.warnings,
      threw |-> g.threw,
      diverges |-> ~g.threw /\ diverges,
      issues |-> IF g.threw \/ diverges THEN <<>>
                 ELSE Concat([r \in 1..Len(patterns) |->
                        Concat([k \in 1..Len(patterns[r].patterns) |->
                                  [j \in 1..Len(loops[r][k].matches) |->
                                     MakeIssue(patterns[r], code, filename,
                                               loops[r][k].matches[j])]])]),
      matches |-> IF g.threw \/ diverges THEN <<>>
                  ELSE Concat([r \in 1..Len(patterns) |->
                         Concat([k \in 1..Len(patterns[r].patterns) |->
                                   [j \in 1..Len(loops[r][k].matches) |->
                                      [index |-> loops[r][k].matches[j].index,
                                       end |-> loops[r][k].matches[j].end]]])])]

\* Lines 16-60 on the compiled patterns getCompiledPatterns returned (g) and
\* the loop results of their matchers: the state left and the outcome.
ScanOutcome(g, loops, code, filename, category) ==
  LET patterns == g.result
      diverges == \E r \in 1..Len(patterns) :
                     \E k \in 1..Len(patterns[r].patterns) : loops[r][k].diverges
      after == [r \in 1..Len(patterns) |->
                  [k \in 1..Len(patterns[r].patterns) |-> loops[r][k].lastIndex]]
  IN [cache |-> g.cache,
      lastIndex |-> IF g.threw \/ category \notin DOMAIN g.lastIndex THEN g.lastIndex
                    ELSE [g.lastIndex EXCEPT ![category] = after],
      built |-> g.built,
      warnings |-> g.warnings,
      threw |-> g.threw,
      diverges |-> ~g.threw /\ diverges,
      issues |-> IF g.threw \/ diverges THEN <<>>
                 ELSE ScanIssues(patterns, loops, code, filename),
      matches |-> IF g.threw \/ diverges THEN <<>> ELSE ScanMatches(patterns, loops)]

ScanWith(g, code, filename, category) ==
  Only({ScanOutcome(g, loops, code, filename, category) :
          loops \in {ScanLoops(g.result,
                               IF category \in DOMAIN g.lastIndex
                               THEN g.lastIndex[category] ELSE <<>>,
                               code)}})

\* analyzeWithPatterns(code, filename, category) on the module state
\* (cache, li): the state it leaves and its outcome: threw (the cache build
\* raised), diverges (a matcher loop never ends) or the returned issues.
analyzeWithPatterns(table, cache, li, code, filename, category) ==
  Only({ScanWith(g, code, filename, category) :
          g \in {getCompiledPatterns(table, cache, li, category)}})

\* --------------------------------------------------------------- rule tables
\* The definitions/*.ts tables are data.  The behaviours below start from one
\* of a few small tables of the same shape: every rule is a PatternDefinition
\* the types admit.

Rule(id, severity, category, match) ==
  [id |-> id, title |-> id, severity |-> severity, category |-> category, match |-> match]

WithCommands(rule, commands) ==
  rule @@ [verification |-> [status |-> "needs_verification", commands |-> commands]]

Raw(pattern, flags) == [type |-> "raw_regex", pattern |-> pattern, flags |-> flags]

\* A well-formed table: global, sticky and single-shot matchers, with and
\* without verification commands.
TableA ==
  [security |->
     <<WithCommands(Rule("CS-SEC001", "critical", "security", Raw(Lit("m"), "g")),
                    <<Chars("log -S \"<matched_value>\" -- <filename>"),
                      Chars("ls <filename> <filename>")>>),
       WithCommands(Rule("CS-SEC002", "high", "security", Raw(Plus(Chr({"k"})), "g")),
                    <<Chars("grep <matched_value>")>>)>>,
   deceptive |->
     <<Rule("CS-DEC001", "high", "deceptive", Raw(Lit("m"), "y")),
       Rule("CS-DEC002", "medium", "deceptive", Raw(Lit("\n"), "i"))>>,
   placeholder |->
     <<Rule("CS-PH001", "low", "placeholder", Raw(Lit("match"), "g"))
         @@ [verification |-> [status |-> "confirmed"]],
       Rule("CS-PH002", "info", "placeholder",
            [type |-> "comment_marker", markers |-> <<"m">>, style |-> "single"])>>,
   error |->
     <<Rule("CS-ERR001", "medium", "error",
            [type |-> "comparison", operators |-> <<"===", "==">>])>>]

\* A second well-formed table: matches that span lines, a sticky global
\* matcher, two rules that fire on the same text.
TableB ==
  [security |->
     <<WithCommands(Rule("CS-SEC010", "high", "security",
                         Raw(Cat(<<Lit("m"), Opt(Lit("\n"))>>), "gy")),
                    <<Chars("<filename>:<matched_value>")>>)>>,
   deceptive |->
     <<Rule("CS-DEC010", "low", "deceptive", Raw(Cat(<<Lit("\n"), Lit("m")>>), "g")),
       Rule("CS-DEC011", "critical", "deceptive", Raw(Lit("m"), ""))>>,
   placeholder |-> <<>>,
   error |->
     <<WithCommands(Rule("CS-ERR010", "info", "error",
                         [type |-> "string_literal", patterns |-> <<"<filename>">>]),
                    <<Chars("cat <matched_value>")>>)>>]

\* Two definitions with the same id, in one category and across categories.
TableDup ==
  [security |->
     <<Rule("CS-SEC001", "critical", "security", Raw(Lit("m"), "g")),
       Rule("CS-SEC001", "low", "security", Raw(Lit("\n"), "g"))>>,
   deceptive |-> <<Rule("CS-DEC001", "high", "deceptive", Raw(Lit("m"), "g"))>>,
   placeholder |-> <<Rule("CS-DEC001", "low", "placeholder", Raw(Lit("m"), "g"))>>,
   error |-> <<>>]

\* A raw pattern that does not compile, in the third category built.
TableBad ==
  [security |-> <<Rule("CS-SEC001", "critical", "security", Raw(Lit("m"), "g"))>>,
   deceptive |-> <<Rule("CS-DEC001", "high", "deceptive", Raw(Lit("m"), "g"))>>,
   placeholder |-> <<Rule("CS-PH001", "low", "placeholder", Raw(BadSource, "g"))>>,
   error |-> <<Rule("CS-ERR001", "medium", "error", Raw(Lit("m"), "g"))>>]

\* An unknown match type, and a custom secret with no customPattern.
TableUnknown ==
  [security |->
     <<Rule("CS-SEC001", "critical", "security", [type |-> "regex"]),
       Rule("CS-SEC002", "critical", "security",
            [type |-> "secret_pattern", kind |-> "custom"])>>,
   deceptive |-> <<Rule("CS-DEC001", "high", "deceptive", Raw(Lit("m"), "g"))>>,
   placeholder |-> <<>>,
   error |-> <<>>]

\* A global matcher that matches the empty string.
TableLoop ==
  [security |-> <<Rule("CS-SEC001", "critical", "security", Raw(Lit("m"), "g"))>>,
   deceptive |->
     <<Rule("CS-DEC001", "low", "deceptive",
            [type |-> "chained_access", minDepth |-> 0, operator |-> "?."])>>,
   placeholder |-> <<>>,
   error |-> <<>>]

\* definitions/deceptive.ts: the shipped deceptive rules, in table order, with
\* the id in place of the title; the raw expressions are written as trees.

\* if\s*\([^)]*error[^)]*\)\s*\{\s*return\s*;?\s*\}
SilentErrorReturn ==
  Cat(<<Lit("if"), WsStar, Lit("("), Star(NChr({")"})), Lit("error"), Star(NChr({")"})),
        Lit(")"), WsStar, Lit("{"), WsStar, Lit("return"), WsStar, Opt(Lit(";")), WsStar,
        Lit("}")>>)

\* setTimeout\s*\([^,]+,\s*\d+\s*\)\s*;?\s*\/\/.*?(?:fix|hack|workaround|retry)
TimeoutWorkaround ==
  Cat(<<Lit("setTimeout"), WsStar, Lit("("), Plus(NChr({","})), Lit(","), WsStar,
        Plus(Chr(Digits)), WsStar, Lit(")"), WsStar, Opt(Lit(";")), WsStar, Lit("//"),
        LazyStar(Dot),
        Alt(<<Lit("fix"), Lit("hack"), Lit("workaround"), Lit("retry")>>)>>)

\* return\s*\{\s*(?:success|ok|status)\s*:\s*true[^}]*\}\s*;?\s*\/\/.*?(?:todo|fixme|hack)
FakeSuccess ==
  Cat(<<Lit("return"), WsStar, Lit("{"), WsStar,
        Alt(<<Lit("success"), Lit("ok"), Lit("status")>>), WsStar, Lit(":"), WsStar,
        Lit("true"), Star(NChr({"}"})), Lit("}"), WsStar, Opt(Lit(";")), WsStar, Lit("//"),
        LazyStar(Dot), Alt(<<Lit("todo"), Lit("fixme"), Lit("hack")>>)>>)

\* console\.error\s*\([^)]+\)\s*;?\s*(?!\s*throw)
LoggedNotThrown ==
  Cat(<<Lit("console.error"), WsStar, Lit("("), Plus(NChr({")"})), Lit(")"), WsStar,
        Opt(Lit(";")), WsStar, NLook(Cat(<<WsStar, Lit("throw")>>))>>)

deceptiveDefinitions ==
  <<Rule("CS-DEC001", "high", "deceptive", [type |-> "catch_handler", behavior |-> "empty"]),
    Rule("CS-DEC002", "high", "deceptive",
         [type |-> "catch_handler", behavior |-> "comment_only"]),
    Rule("CS-DEC003", "medium", "deceptive",
         [type |-> "catch_handler", behavior |-> "log_only"]),
    Rule("CS-DEC010", "high", "deceptive", [type |-> "promise_catch", behavior |-> "empty"]),
    Rule("CS-DEC011", "high", "deceptive",
         [type |-> "promise_catch", behavior |-> "returns_silent",
          silentValues |-> <<"null", "undefined", "false", "true", "''", "\"\"">>]),
    Rule("CS-DEC012", "medium", "deceptive",
         [type |-> "promise_catch", behavior |-> "ignores_param"]),
    Rule("CS-DEC020", "medium", "deceptive",
         [type |-> "fallback_value", operators |-> <<"||">>, values |-> <<"[]">>]),
    Rule("CS-DEC021", "medium", "deceptive",
         [type |-> "fallback_value", operators |-> <<"||">>, values |-> <<"{}">>]),
    Rule("CS-DEC022", "low", "deceptive",
         [type |-> "fallback_value", operators |-> <<"??">>,
          values |-> <<"[]", "{}", "''", "\"\"">>]),
    Rule("CS-DEC030", "medium", "deceptive",
         [type |-> "chained_access", minDepth |-> 4, operator |-> "?."]),
    Rule("CS-DEC040", "high", "deceptive",
         [type |-> "returns_only", values |-> <<"null", "undefined", "false">>,
          withComment |-> <<"error", "fail", "todo", "fixme">>]),
    Rule("CS-DEC041", "high", "deceptive", Raw(SilentErrorReturn, "gi")),
    Rule("CS-DEC050", "medium", "deceptive", Raw(TimeoutWorkaround, "gi")),
    Rule("CS-DEC060", "low", "deceptive",
         [type |-> "suppression_comment",
          tools |-> <<"ts-ignore", "ts-expect-error", "eslint-disable", "noqa">>]),
    Rule("CS-DEC061", "medium", "deceptive", [type |-> "type_cast", targets |-> <<"any">>]),
    Rule("CS-DEC070", "critical", "deceptive", Raw(FakeSuccess, "gi")),
    Rule("CS-DEC080", "low", "deceptive", Raw(LoggedNotThrown, "g"))>>

\* The table a deceptive scan reads: it compiles the whole table on the first
\* call but scans with the deceptive rules alone, so the other categories are
\* left empty.
DeceptiveTable ==
  [security |-> <<>>, deceptive |-> deceptiveDefinitions, placeholder |-> <<>>,
   error |-> <<>>]

\* definitions/security.ts: the shipped security rules, in table order, with
\* the id in place of the title and the verification commands of the four
\* rules that have a verification record.

\* (?:execute|query|raw)\s*\(\s*['"`].*?\$\{.*?\}.*?['"`]\s*\)
SqlTemplate ==
  Cat(<<Alt(<<Lit("execute"), Lit("query"), Lit("raw")>>), WsStar, Lit("("), WsStar,
        QuoteChr, LazyStar(Dot), Lit("${"), LazyStar(Dot), Lit("}"), LazyStar(Dot),
        QuoteChr, WsStar, Lit(")")>>)

\* (?:execute|query)\s*\(\s*['"`].*?\+.*?['"`]\s*\)
SqlConcatenation ==
  Cat(<<Alt(<<Lit("execute"), Lit("query")>>), WsStar, Lit("("), WsStar, QuoteChr,
        LazyStar(Dot), Lit("+"), LazyStar(Dot), QuoteChr, WsStar, Lit(")")>>)

\* innerHTML\s*=\s*(?!['"`]<)
InnerHtmlAssigned ==
  Cat(<<Lit("innerHTML"), WsStar, Lit("="), WsStar, NLook(Cat(<<QuoteChr, Lit("<")>>))>>)

\* Access-Control-Allow-Origin['":]+\s*\*
CorsWildcard ==
  Cat(<<Lit("Access-Control-Allow-Origin"), Plus(Chr({"'", "\"", ":"})), WsStar, Lit("*")>>)

securityDefinitions ==
  <<WithCommands(Rule("CS-SEC001", "critical", "security",
                      [type |-> "secret_pattern", kind |-> "generic"]),
                 <<Chars("git log -p -S \"<matched_value>\" -- <filename>"),
                   Chars("grep -r \"<matched_value>\" .env* config/")>>),
    WithCommands(Rule("CS-SEC002", "critical", "security",
                      [type |-> "secret_pattern", kind |-> "github"]),
                 <<Chars("git log -p -S \"<matched_value>\" --all"),
                   Chars("git ls-files <filename>")>>),
    WithCommands(Rule("CS-SEC003", "critical", "security",
                      [type |-> "secret_pattern", kind |-> "openai"]),
                 <<Chars("git log -p -S \"sk-\" --all -- <filename>"),
                   Chars("git ls-files <filename>")>>),
    WithCommands(Rule("CS-SEC004", "critical", "security",
                      [type |-> "secret_pattern", kind |-> "aws"]),
                 <<Chars("git log -p -S \"AKIA\" --all -- <filename>"),
                   Chars("git ls-files <filename>")>>),
    Rule("CS-SEC005", "critical", "security", [type |-> "secret_pattern", kind |-> "stripe"]),
    Rule("CS-SEC010", "critical", "security", Raw(SqlTemplate, "gi")),
    Rule("CS-SEC011", "high", "security", Raw(SqlConcatenation, "gi")),
    Rule("CS-SEC020", "high", "security", Raw(InnerHtmlAssigned, "g")),
    Rule("CS-SEC021", "medium", "security",
         [type |-> "function_call", names |-> <<"dangerouslySetInnerHTML">>,
          methods |-> FALSE]),
    Rule("CS-SEC030", "high", "security", [type |-> "function_call", names |-> <<"eval">>]),
    Rule("CS-SEC031", "high", "security",
         [type |-> "function_call", names |-> <<"Function">>, constructors |-> TRUE]),
    Rule("CS-SEC032", "medium", "security",
         Raw(Cat(<<Lit("document.write"), WsStar, Lit("(")>>), "g")),
    Rule("CS-SEC040", "high", "security",
         [type |-> "function_call", names |-> <<"md5", "sha1">>]),
    Rule("CS-SEC041", "medium", "security",
         Raw(Cat(<<Lit("Math.random"), WsStar, Lit("()")>>), "g")),
    Rule("CS-SEC050", "medium", "security",
         [type |-> "url_pattern", protocol |-> "http", excludeLocalhost |-> TRUE]),
    Rule("CS-SEC051", "critical", "security",
         Raw(Cat(<<Lit("rejectUnauthorized"), WsStar, Lit(":"), WsStar, Lit("false")>>), "g")),
    Rule("CS-SEC060", "medium", "security", Raw(CorsWildcard, "g"))>>

\* \d
Digit == Chr(Digits)
\* (?:\d+\.\d+|\w+)
NumberOrWord == Alt(<<Cat(<<Plus(Digit), Lit("."), Plus(Digit)>>), Plus(Word)>>)
\* \([^)]*\)\s*\{[^}]*
ParametersAndBody ==
  Cat(<<Lit("("), Star(NChr({")"})), Lit(")"), WsStar, Lit("{"), Star(NChr({"}"}))>>)

\* definitions/errors.ts, the rules in the order of the list; each raw source
\* is quoted above its tree.
errorDefinitions ==
  <<Rule("CS-ERR030", "low", "error", [type |-> "comparison", operators |-> <<"==">>]),
    Rule("CS-ERR031", "low", "error", [type |-> "comparison", operators |-> <<"!=">>]),
    \* if\s*\(\s*\w+\s*=\s*[^=]
    Rule("CS-ERR032", "high", "error",
         Raw(Cat(<<Lit("if"), WsStar, Lit("("), WsStar, Plus(Word), WsStar, Lit("="),
                   WsStar, NChr({"="})>>), "g")),
    Rule("CS-ERR050", "medium", "error", [type |-> "loop_pattern", kind |-> "for_in"]),
    Rule("CS-ERR051", "medium", "error", [type |-> "loop_pattern", kind |-> "while_true"]),
    \* var\s+(\w+)[\s\S]*?var\s+\1\s*=
    Rule("CS-ERR020", "medium", "error",
         Raw(Echo(Cat(<<Lit("var"), Plus(Ws)>>), Plus(Word),
                  Cat(<<LazyStar(AnyChar), Lit("var"), Plus(Ws)>>),
                  Cat(<<WsStar, Lit("=")>>)), "g")),
    \* (?:\d+\.\d+|\w+)\s*===?\s*(?:\d+\.\d+|\w+).*?(?:price|amount|total|sum|money|currency|rate)
    Rule("CS-ERR060", "high", "error",
         Raw(Cat(<<NumberOrWord, WsStar, Lit("=="), Opt(Lit("=")), WsStar, NumberOrWord,
                   LazyStar(Dot),
                   Alt(<<Lit("price"), Lit("amount"), Lit("total"), Lit("sum"), Lit("money"),
                         Lit("currency"), Lit("rate")>>)>>), "gi")),
    \* \.forEach\s*\([^)]*\)\s*\{[^}]*(?:\.push|\.pop|\.shift|\.splice)
    Rule("CS-ERR070", "high", "error",
         Raw(Cat(<<Lit(".forEach"), WsStar, ParametersAndBody,
                   Alt(<<Lit(".push"), Lit(".pop"), Lit(".shift"), Lit(".splice")>>)>>),
             "g")),
    \* parseInt\s*\(\s*[^,)]+\s*\)(?!\s*,)
    Rule("CS-ERR080", "low", "error",
         Raw(Cat(<<Lit("parseInt"), WsStar, Lit("("), WsStar, Plus(NChr({",", ")"})),
                   WsStar, Lit(")"), NLook(Cat(<<WsStar, Lit(",")>>))>>), "g")),
    \* return\s+[^;]+;\s*\n\s*(?![\s}]|case\s|default:)
    Rule("CS-ERR090", "medium", "error",
         Raw(Cat(<<Lit("return"), Plus(Ws), Plus(NChr({";"})), Lit(";"), WsStar,
                   Lit("\n"), WsStar,
                   NLook(Alt(<<Chr(WhiteSpace \cup {"}"}), Cat(<<Lit("case"), Ws>>),
                               Lit("default:")>>))>>), "g")),
    \* delete\s+\w+\[\w+\]
    Rule("CS-ERR100", "medium", "error",
         Raw(Cat(<<Lit("delete"), Plus(Ws), Plus(Word), Lit("["), Plus(Word), Lit("]")>>),
             "g")),
    \* setTimeout\s*\(\s*(?:this\.\w+|function\s*\([^)]*\)\s*\{[^}]*this\.)
    Rule("CS-ERR110", "medium", "error",
         Raw(Cat(<<Lit("setTimeout"), WsStar, Lit("("), WsStar,
                   Alt(<<Cat(<<Lit("this."), Plus(Word)>>),
                         Cat(<<Lit("function"), WsStar, ParametersAndBody,
                               Lit("this.")>>)>>)>>), "g")),
    \* (?:^|[^.])\b(?:Date|Array|Object|Map|Set|Promise)\s*\(\s*\)
    Rule("CS-ERR120", "low", "error",
         Raw(Cat(<<Alt(<<Bol, NChr({"."})>>), WordB,
                   Alt(<<Lit("Date"), Lit("Array"), Lit("Object"), Lit("Map"), Lit("Set"),
                         Lit("Promise")>>), WsStar, Lit("("), WsStar, Lit(")")>>), "g")),
    \* (?:if|while|for|===?|!==?|[<>]=?)\s*\(?\s*(?:\d{3,}|\d+\.\d+)\s*(?!\s*(?:px|em|rem|%|vh|vw|s|ms))
    Rule("CS-ERR130", "low", "error",
         Raw(Cat(<<Alt(<<Lit("if"), Lit("while"), Lit("for"),
                         Cat(<<Lit("=="), Opt(Lit("="))>>),
                         Cat(<<Lit("!="), Opt(Lit("="))>>),
                         Cat(<<Chr({"<", ">"}), Opt(Lit("="))>>)>>),
                   WsStar, Opt(Lit("(")), WsStar,
                   Alt(<<AtLeast(Digit, 3), Cat(<<Plus(Digit), Lit("."), Plus(Digit)>>)>>),
                   WsStar,
                   NLook(Cat(<<WsStar,
                               Alt(<<Lit("px"), Lit("em"), Lit("rem"), Lit("%"), Lit("vh"),
                                     Lit("vw"), Lit("s"), Lit("ms")>>)>>))>>), "g")),
    \* constructor\s*\([^)]*\)\s*\{[^}]*await\s+
    Rule("CS-ERR140", "high", "error",
         Raw(Cat(<<Lit("constructor"), WsStar, ParametersAndBody, Lit("await"),
                   Plus(Ws)>>), "g"))>>

\* [\s-]?
SpaceOrDash == Opt(Chr(WhiteSpace \cup {"-"}))
\* \d{n}
DigitsExactly(n) == Rep(Digit, n, n, FALSE)
\* s\s*\(\s*['"`](?:words)['"`]\s*\), the call of s with one of the words quoted.
QuotedArgument(s, words) ==
  Cat(<<Lit(s), WsStar, Lit("("), WsStar, QuoteChr, words, QuoteChr, WsStar, Lit(")")>>)

\* definitions/placeholders.ts, the rules in the order of the list.
placeholderDefinitions ==
  <<Rule("CS-PH001", "low", "placeholder",
         [type |-> "comment_marker", markers |-> <<"TODO">>, style |-> "any"]),
    Rule("CS-PH002", "medium", "placeholder",
         [type |-> "comment_marker", markers |-> <<"FIXME">>, style |-> "any"]),
    Rule("CS-PH003", "medium", "placeholder",
         [type |-> "comment_marker", markers |-> <<"HACK">>, style |-> "any"]),
    Rule("CS-PH004", "low", "placeholder",
         [type |-> "comment_marker", markers |-> <<"XXX">>, style |-> "any"]),
    Rule("CS-PH010", "medium", "placeholder",
         [type |-> "contains_text", terms |-> <<"lorem ipsum">>, context |-> "any",
          caseInsensitive |-> TRUE]),
    Rule("CS-PH011", "low", "placeholder",
         [type |-> "string_literal",
          patterns |-> <<"foo", "bar", "baz", "qux", "test", "dummy", "sample", "example",
                         "placeholder">>,
          caseInsensitive |-> TRUE]),
    \* ['"`]test@(?:test|example|dummy|sample)\.[a-z]+['"`]
    Rule("CS-PH020", "medium", "placeholder",
         Raw(Cat(<<QuoteChr, Lit("test@"),
                   Alt(<<Lit("test"), Lit("example"), Lit("dummy"), Lit("sample")>>),
                   Lit("."), Plus(Chr(LowerLetters)), QuoteChr>>), "gi")),
    Rule("CS-PH021", "high", "placeholder",
         [type |-> "string_literal",
          patterns |-> <<"123", "1234", "12345", "123456", "password", "admin", "root",
                         "test">>,
          caseInsensitive |-> TRUE]),
    \* (?:localhost|127\.0\.0\.1):\d{4,5}
    Rule("CS-PH022", "medium", "placeholder",
         Raw(Cat(<<Alt(<<Lit("localhost"), Lit("127.0.0.1")>>), Lit(":"),
                   Rep(Digit, 4, 5, FALSE)>>), "g")),
    Rule("CS-PH023", "low", "placeholder",
         [type |-> "string_literal",
          patterns |-> <<"xxx", "yyy", "zzz", "aaa", "bbb", "ccc">>,
          caseInsensitive |-> TRUE]),
    \* ['"`](?:\+1)?[\s-]?555[\s-]?\d{3}[\s-]?\d{4}['"`]
    Rule("CS-PH030", "low", "placeholder",
         Raw(Cat(<<QuoteChr, Opt(Lit("+1")), SpaceOrDash, Lit("555"), SpaceOrDash,
                   DigitsExactly(3), SpaceOrDash, DigitsExactly(4), QuoteChr>>), "g")),
    \* ['"`](?:000[-\s]?00[-\s]?0000|111[-\s]?11[-\s]?1111|123[-\s]?45[-\s]?6789)['"`]
    Rule("CS-PH031", "medium", "placeholder",
         Raw(Cat(<<QuoteChr,
                   Alt(<<Cat(<<Lit("000"), SpaceOrDash, Lit("00"), SpaceOrDash,
                               Lit("0000")>>),
                         Cat(<<Lit("111"), SpaceOrDash, Lit("11"), SpaceOrDash,
                               Lit("1111")>>),
                         Cat(<<Lit("123"), SpaceOrDash, Lit("45"), SpaceOrDash,
                               Lit("6789")>>)>>),
                   QuoteChr>>), "g")),
    Rule("CS-PH040", "high", "placeholder",
         [type |-> "contains_text",
          terms |-> <<"not implemented", "implement me", "coming soon">>,
          context |-> "string", caseInsensitive |-> TRUE]),
    \* (?:return|=)\s*['"`](?:TBD|TBA|N\/A|pending|placeholder)['"`]
    Rule("CS-PH041", "medium", "placeholder",
         Raw(Cat(<<Alt(<<Lit("return"), Lit("=")>>), WsStar, QuoteChr,
                   Alt(<<Lit("TBD"), Lit("TBA"), Lit("N/A"), Lit("pending"),
                         Lit("placeholder")>>), QuoteChr>>), "gi")),
    \* console\.log\s*\(\s*['"`](?:debug|test|here|working|checkpoint|\d+)['"`]\s*\)
    Rule("CS-PH050", "low", "placeholder",
         Raw(QuotedArgument("console.log",
                            Alt(<<Lit("debug"), Lit("test"), Lit("here"), Lit("working"),
                                  Lit("checkpoint"), Plus(Digit)>>)), "gi")),
    \* debugger\s*;
    Rule("CS-PH051", "medium", "placeholder",
         Raw(Cat(<<Lit("debugger"), WsStar, Lit(";")>>), "g")),
    \* alert\s*\(\s*['"`](?:test|debug|here|working)['"`]\s*\)
    Rule("CS-PH052", "medium", "placeholder",
         Raw(QuotedArgument("alert",
                            Alt(<<Lit("test"), Lit("debug"), Lit("here"),
                                  Lit("working")>>)), "gi")),
    \* \/\/\s*(?:const|let|var|function|class|if|for|while|return)\s+\w+
    Rule("CS-PH060", "low", "placeholder",
         Raw(Cat(<<Lit("//"), WsStar,
                   Alt(<<Lit("const"), Lit("let"), Lit("var"), Lit("function"),
                         Lit("class"), Lit("if"), Lit("for"), Lit("while"),
                         Lit("return")>>), Plus(Ws), Plus(Word)>>), "g")),
    Rule("CS-PH070", "medium", "placeholder",
         [type |-> "string_literal",
          patterns |-> <<"test-id", "test_id", "testid", "fake-id", "temp-id">>,
          caseInsensitive |-> TRUE])>>

\* getDefinitions() of the shipped module reads these four lists.
ShippedTable ==
  [security |-> securityDefinitions, deceptive |-> deceptiveDefinitions,
   placeholder |-> placeholderDefinitions, error |-> errorDefinitions]

\* The table a security scan reads, the other categories left empty.
SecurityTable ==
  [security |-> securityDefinitions, deceptive |-> <<>>, placeholder |-> <<>>,
   error |-> <<>>]

\* Rules that fire on the same text: a global and a non-global matcher of two
\* rules, a rule with three matchers, and matches that would overlap.
OrderTable ==
  [security |->
     <<Rule("CS-SEC001", "critical", "security", Raw(Lit("m"), "g")),
       Rule("CS-SEC002", "high", "security", Raw(Lit("m"), "i")),
       Rule("CS-SEC003", "medium", "security",
            [type |-> "contains_text", terms |-> <<"m">>]),
       Rule("CS-SEC004", "low", "security", Raw(Cat(<<Lit("m"), Lit("m")>>), "g"))>>,
   deceptive |->
     <<Rule("CS-DEC001", "high", "deceptive", Raw(Lit("\n"), "g")),
       Rule("CS-DEC002", "medium", "deceptive", Raw(Lit("m"), "y")),
       Rule("CS-DEC003", "low", "deceptive",
            [type |-> "comment_marker", markers |-> <<"m">>])>>,
   placeholder |-> <<>>,
   error |-> <<>>]

WellFormedTables == {TableA, TableB}

\* Rule tables for validation: every list of definitions up to the bound in
\* the first category and up to one definition in the last, each definition
\* with one of two ids and a match that compiles, that does not compile, that
\* has an unknown type, or that names nothing to match.
ValidationMatches ==
  {Raw(Lit("m"), "g"),
   Raw(BadSource, "g"),
   [type |-> "regex"],
   [type |-> "fallback_value", operators |-> <<>>, values |-> <<"[]">>],
   [type |-> "secret_pattern", kind |-> "custom"]}

ValidationRules(category) ==
  {Rule(id, "low", category, match) : id \in {"CS-A", "CS-B"}, match \in ValidationMatches}

ValidationTables ==
  {[security |-> s, deceptive |-> <<>>, placeholder |-> <<>>, error |-> e] :
     s \in UNION {[1..n -> ValidationRules("security")] : n \in 0..MaxDefinitions},
     e \in UNION {[1..n -> ValidationRules("error")] : n \in 0..1}}
AllTables == WellFormedTables \cup {TableDup, TableBad, TableUnknown, TableLoop}


\* ------------------------------------------------------------------ report.ts

MaxPenalty == 100
CriticalWeight == 25
HighWeight == 15
MediumWeight == 5
LowWeight == 1
StrengthBonus == 2

\* The score without the clamp at 100 and the bonus for strengths.
ScoreWithoutBonus(summary) ==
  Max(0, MaxPenalty - (summary.critical * CriticalWeight + summary.high * HighWeight
                       + summary.medium * MediumWeight + summary.low * LowWeight))

\* Lines 91-95 of generateHtmlReport.
Penalty(summary) ==
  summary.critical * CriticalWeight + summary.high * HighWeight
  + summary.medium * MediumWeight + summary.low * LowWeight

\* Line 96: Math.max(0, Math.min(100, maxPenalty - penalty + strengths * 2)).
Score(summary) ==
  Max(0, Min(100, MaxPenalty - Penalty(summary) + summary.strengths * StrengthBonus))

\* ------------------------------------------------------ analyzers/patterns.ts
\* The advisory engine.  Its RegExp objects are literals of the rule tables;
\* every loop sets lastIndex to 0 before its first exec.

\* A RegExp literal /re/g.
Global(re) == NewRegExp(re, "g")

\* slice(0, 3) of a variant's matches (line 725).
VariantLocationCap == 3

\* Lines 298-308.
MixedAsyncStyles ==
  [id |-> "CS-INC001", title |-> "Mixed Async Styles", level |-> "code",
   variants |->
     <<[name |-> "async/await",
        pattern |-> Global(Alt(<<Cat(<<Lit("async"), Plus(Ws), Word>>),
                                 Cat(<<Lit("await"), Plus(Ws)>>)>>))],
       [name |-> "Promise chains",
        pattern |-> Global(Cat(<<Lit(".then"), WsStar, Lit("(")>>))],
       [name |-> "Callbacks",
        pattern |-> Global(Alt(<<Cat(<<Lit(","), WsStar,
                                       Alt(<<Lit("callback"), Lit("cb")>>),
                                       WsStar, Lit(")")>>),
                                 Cat(<<Lit(","), WsStar, Lit("(err,")>>)>>))]>>,
   recommendation |->
     "Standardize on async/await for consistency and readability. Convert Promise chains with await and refactor callbacks to return Promises."]

\* Lines 309-320.
MixedErrorHandling ==
  [id |-> "CS-INC002", title |-> "Mixed Error Handling", level |-> "code",
   variants |->
     <<[name |-> "try/catch",
        pattern |-> Global(Cat(<<Lit("try"), WsStar, Lit("{"), LazyStar(AnyChar),
                                 Lit("catch")>>))],
       [name |-> ".catch()",
        pattern |-> Global(Cat(<<Lit(".catch"), WsStar, Lit("(")>>))],
       [name |-> "Error callbacks",
        pattern |-> Global(Cat(<<Lit("("), WsStar, Lit("err"), Opt(Lit("or")), WsStar,
                                 Alt(<<Lit(","), Lit(")")>>)>>))],
       [name |-> "Result types",
        pattern |-> Global(Cat(<<Alt(<<Lit("Result"), Lit("Either"), Lit("Ok"),
                                       Lit("Err")>>), Lit("<")>>))]>>,
   recommendation |->
     "Choose one primary error handling strategy. Result types are explicit, try/catch is familiar. Avoid mixing."]

\* Lines 321-331.
MixedExportStyles ==
  [id |-> "CS-INC003", title |-> "Mixed Export Styles", level |-> "code",
   variants |->
     <<[name |-> "Named exports",
        pattern |-> Global(Cat(<<Lit("export"), Plus(Ws),
                                 Alt(<<Lit("const"), Lit("function"), Lit("class"),
                                       Lit("interface"), Lit("type")>>),
                                 Plus(Ws), Plus(Word)>>))],
       [name |-> "Default exports",
        pattern |-> Global(Cat(<<Lit("export"), Plus(Ws), Lit("default")>>))],
       [name |-> "module.exports",
        pattern |-> Global(Cat(<<Lit("module.exports"), WsStar, Lit("=")>>))]>>,
   recommendation |->
     "Prefer named exports for better tree-shaking and IDE support. Reserve default exports for main entry points only."]

\* Lines 332-343.
MixedNullHandling ==
  [id |-> "CS-INC004", title |-> "Mixed Null Handling", level |-> "code",
   variants |->
     <<[name |-> "Optional chaining (?.)", pattern |-> Global(Lit("?."))],
       [name |-> "Nullish coalescing (??)", pattern |-> Global(Lit("??"))],
       [name |-> "Logical OR (||)",
        pattern |-> Global(Cat(<<Lit("||"), WsStar,
                                 Alt(<<Lit("null"), Lit("undefined"), Lit("''"),
                                       Lit("\"\""), Lit("[]"), Lit("{}")>>)>>))],
       [name |-> "Explicit checks",
        pattern |-> Global(Cat(<<Alt(<<Cat(<<Lit("!="), Opt(Lit("="))>>),
                                       Cat(<<Lit("=="), Opt(Lit("="))>>)>>),
                                 WsStar, Alt(<<Lit("null"), Lit("undefined")>>)>>))]>>,
   recommendation |->
     "Use ?. and ?? consistently. They handle null/undefined specifically, while || treats all falsy values the same."]

\* Lines 344-354.
MixedFunctionStyles ==
  [id |-> "CS-INC005", title |-> "Mixed Function Styles", level |-> "code",
   variants |->
     <<[name |-> "Arrow functions",
        pattern |-> Global(Cat(<<Alt(<<Lit("const"), Lit("let")>>), Plus(Ws), Plus(Word),
                                 WsStar, Lit("="), WsStar,
                                 Alt(<<Cat(<<Lit("("), Star(NChr({")"})), Lit(")")>>),
                                       NChr({"="})>>),
                                 WsStar, Lit("=>")>>))],
       [name |-> "Function declarations",
        pattern |-> Global(Cat(<<Lit("function"), Plus(Ws), Plus(Word), WsStar,
                                 Lit("(")>>))],
       [name |-> "Method shorthand",
        pattern |-> Global(Cat(<<Plus(Word), WsStar, Lit("("), Star(NChr({")"})),
                                 Lit(")"), WsStar, Lit("{")>>))]>>,
   recommendation |->
     "Use arrow functions for callbacks and short functions. Use declarations for hoisting needs and named stack traces."]

\* Lines 297-355.
inconsistencyDetectors ==
  <<MixedAsyncStyles, MixedErrorHandling, MixedExportStyles, MixedNullHandling,
    MixedFunctionStyles>>

\* Lines 668-677 and 712-720: the location pushed for one match.
LocationOf(lines, lineNumber) ==
  [line |-> lineNumber,
   code |-> Trim(IF lineNumber <= Len(lines) THEN lines[lineNumber] ELSE <<>>)]

LocationsFrom(code, lines, found) ==
  [j \in 1..Len(found) |-> LocationOf(lines, LineNumber(code, found[j].index))]

\* Lines 665-679 and 708-720: pattern.lastIndex = 0, then the exec loop.
LocationsOf(pattern, code) ==
  LocationsFrom(code, Split(code), MatcherLoop(pattern, code, 0, <<>>).matches)

\* Lines 722-728: the variant entry pushed when the variant has matches.
VariantFrom(variant, matches) ==
  IF Len(matches) > 0
  THEN <<[approach |-> variant.name,
          locations |-> SubSeq(matches, 1, Min(VariantLocationCap, Len(matches))),
          count |-> Len(matches)]>>
  ELSE <<>>

\* Lines 705-729: the variants of one detector that have matches.
VariantsOf(detector, code) ==
  Concat([v \in 1..Len(detector.variants) |->
            VariantFrom(detector.variants[v],
                        LocationsOf(detector.variants[v].pattern, code))])

\* A finding whose severity does not grow with the number of variants.
FindingOfLowSeverity(detector, variants) ==
  IF Len(variants) >= 2
  THEN <<[id |-> detector.id, title |-> detector.title, level |-> detector.level,
          severity |-> "low",
          description |-> <<"Found", Len(variants), "different approaches being used">>,
          variants |-> variants,
          recommendation |-> detector.recommendation]>>
  ELSE <<>>

\* Lines 731-741: the finding pushed when two or more variants are present.
InconsistencyFrom(detector, variants) ==
  IF Len(variants) >= 2
  THEN <<[id |-> detector.id, title |-> detector.title, level |-> detector.level,
          severity |-> IF Len(variants) >= 3 THEN "medium" ELSE "low",
          description |-> <<"Found", Len(variants), "different approaches being used">>,
          variants |-> variants,
          recommendation |-> detector.recommendation]>>
  ELSE <<>>

\* Lines 700-745.
detectInconsistencies(code) ==
  Concat([d \in 1..Len(inconsistencyDetectors) |->
            InconsistencyFrom(inconsistencyDetectors[d],
                              VariantsOf(inconsistencyDetectors[d], code))])

\* slice(0, 5) of an idiom's locations (line 692).
LocationCap == 5

\* Lines 108-118.
RepositoryPattern ==
  [id |-> "CS-ARCH001", name |-> "Repository Pattern", level |-> "architectural",
   patterns |->
     <<Global(Cat(<<Lit("class"), Plus(Ws), Star(Word), Lit("Repository")>>)),
       Global(Cat(<<Lit("interface"), Plus(Ws), Opt(Lit("I")), Star(Word),
                    Lit("Repository")>>)),
       Global(Cat(<<Alt(<<Lit("find"), Lit("get"), Lit("save"), Lit("delete"),
                          Lit("update")>>),
                    Alt(<<Lit("All"), Lit("By"), Lit("One")>>), WsStar, Lit("(")>>))>>,
   description |->
     "Data access abstraction layer separating business logic from data persistence"]

\* Lines 223-232.
AsyncAwaitIdiom ==
  [id |-> "CS-CODE001", name |-> "Async/Await", level |-> "code",
   patterns |->
     <<Global(Cat(<<Lit("async"), Plus(Ws),
                    Alt(<<Lit("function"),
                          Cat(<<Plus(Word), WsStar, Lit("=")>>),
                          Cat(<<Opt(Cat(<<Plus(Word), WsStar>>)), Lit("=>")>>)>>)>>)),
       Global(Cat(<<Lit("await"), Plus(Ws)>>))>>,
   description |-> "Modern asynchronous code handling"]

\* \s*\(\s*(?:\w+\s*=>|\([^)]*\)\s*=>|function)
HandlerArgument ==
  Cat(<<WsStar, Lit("("), WsStar,
        Alt(<<Cat(<<Plus(Word), WsStar, Lit("=>")>>),
              Cat(<<Lit("("), Star(NChr({")"})), Lit(")"), WsStar, Lit("=>")>>),
              Lit("function")>>)>>)

\* Lines 233-242.
PromiseChainsIdiom ==
  [id |-> "CS-CODE002", name |-> "Promise Chains", level |-> "code",
   patterns |-> <<Global(Cat(<<Lit(".then"), HandlerArgument>>)),
                  Global(Cat(<<Lit(".catch"), HandlerArgument>>))>>,
   description |-> "Promise-based asynchronous handling with chaining"]

\* Lines 243-252.
CallbackIdiom ==
  [id |-> "CS-CODE003", name |-> "Callback Pattern", level |-> "code",
   patterns |->
     <<Global(Cat(<<Lit("function"), WsStar, Lit("("), Star(NChr({")"})), Lit(","),
                    WsStar, Alt(<<Lit("callback"), Lit("cb"), Lit("done"), Lit("next")>>),
                    WsStar, Lit(")")>>)),
       Global(Cat(<<Lit("("), WsStar, Alt(<<Lit("err"), Lit("error")>>), WsStar,
                    Lit(","), WsStar,
                    Alt(<<Lit("result"), Lit("data"), Lit("response")>>), WsStar,
                    Lit(")")>>))>>,
   description |-> "Traditional callback-based async handling"]

\* The matchers of the table that the buffers below exercise, in table order.
patternMatchers == <<RepositoryPattern, AsyncAwaitIdiom, PromiseChainsIdiom, CallbackIdiom>>

\* Lines 664-679: the locations of every pattern of a matcher, in push order.
MatcherLocations(matcher, code) ==
  Concat([p \in 1..Len(matcher.patterns) |-> LocationsOf(matcher.patterns[p], code)])

\* Every location, also one on a line that an earlier location is on.
KeepEveryLocation(locations) == locations

\* Lines 682-684: the locations whose line no earlier location has.
UniqueLocations(locations) ==
  LET first == {k \in 1..Len(locations) :
                  \A j \in 1..(k - 1) : locations[j].line # locations[k].line}
  IN [n \in 1..Cardinality(first) |->
        locations[CHOOSE k \in first : Cardinality({j \in first : j < k}) = n - 1]]

\* Lines 686-693: the idiom pushed for a matcher with the given unique locations.
DetectedFrom(matcher, uniqueLocations) ==
  [id |-> matcher.id, name |-> matcher.name, level |-> matcher.level,
   confidence |-> IF Len(uniqueLocations) >= 3 THEN "high"
                  ELSE IF Len(uniqueLocations) >= 2 THEN "medium" ELSE "low",
   description |-> matcher.description,
   locations |-> SubSeq(uniqueLocations, 1, Min(LocationCap, Len(uniqueLocations)))]

\* Lines 681-694.
DetectedOf(matcher, locations) ==
  IF Len(locations) > 0
  THEN <<DetectedFrom(matcher, UniqueLocations(locations))>>
  ELSE <<>>

\* Lines 657-698.
detectPatterns(code) ==
  Concat([m \in 1..Len(patternMatchers) |->
            DetectedOf(patternMatchers[m], MatcherLocations(patternMatchers[m], code))])

\* Lines 370-422.
ResultPatternRule ==
  [id |-> "CS-SUG001", title |-> "Consider Result Pattern for Error Handling",
   level |-> "code",
   detect |-> Global(Alt(<<Cat(<<Lit("return"), Plus(Ws), Lit("null"), WsStar, Lit(";")>>),
                           Cat(<<Lit("return"), Plus(Ws), Lit("undefined"), WsStar,
                                 Lit(";")>>)>>)),
   notPresent |-> Global(Alt(<<Lit("Result<"), Lit("Either<"), Lit("Ok("), Lit("Err(")>>)),
   condition |-> "present", threshold |-> 2,
   suggestion |->
     [name |-> "Result/Either Pattern",
      why |-> "Returning null/undefined on errors makes it impossible to distinguish \"not found\" from \"operation failed\""],
   action |->
     [type |-> "consider",
      steps |-> <<"Define a Result<T, E> type in a shared types file",
                  "Update function return types to use Result",
                  "Replace return null with { ok: false, error: reason }",
                  "Update callers to check result.ok before accessing value">>,
      codeChange |-> [before |-> "return null;",
                      after |-> "return { ok: false, error: 'operation_failed' };"]]]

\* Lines 475-535.
RepositoryLayerRule ==
  [id |-> "CS-SUG003", title |-> "Add Repository Layer for Data Access",
   level |-> "architectural",
   detect |-> Global(Cat(<<Alt(<<Lit("prisma"), Lit("db"), Lit("knex"), Lit("sequelize"),
                                 Lit("mongoose")>>),
                           Lit("."), Plus(Word), Lit("."), Plus(Word)>>)),
   notPresent |-> Global(Lit("Repository")),
   condition |-> "present", threshold |-> 3,
   suggestion |->
     [name |-> "Repository Pattern",
      why |-> "Direct ORM/database calls scattered in business logic make testing hard and create tight coupling"],
   action |->
     [type |-> "refactor",
      steps |-> <<"Identify all direct database calls in services/controllers",
                  "Group related queries by entity (User, Order, etc.)",
                  "Create a Repository interface for each entity",
                  "Implement the interface with your ORM",
                  "Inject repositories into services via constructor">>]]

\* Lines 596-654.
StrategyPatternRule ==
  [id |-> "CS-SUG005", title |-> "Consider Strategy Pattern for Conditional Logic",
   level |-> "design",
   detect |-> Global(Cat(<<Lit("switch"), WsStar, Lit("("), Plus(NChr({")"})), Lit(")"),
                           WsStar, Lit("{"),
                           AtLeast(Cat(<<Star(NChr({"}"})), Lit("case"), Plus(Ws),
                                         Opt(QuoteChr), Plus(Word), Opt(QuoteChr),
                                         WsStar, Lit(":")>>), 4)>>)),
   condition |-> "present",
   suggestion |->
     [name |-> "Strategy Pattern",
      why |-> "Large switch statements violate Open/Closed principle - adding new cases requires modifying existing code"],
   action |->
     [type |-> "refactor",
      steps |-> <<"Create a strategies object/map",
                  "Move each case logic into a strategy function",
                  "Replace switch with strategy lookup and execution",
                  "Add error handling for unknown strategies">>]]

\* The rules of the table that the buffers below exercise, in table order.
suggestionRules == <<ResultPatternRule, RepositoryLayerRule, StrategyPatternRule>>

\* Line 754: code.match(rule.detect) || [] for a global RegExp: every match.
MatchAll(rx, code) == MatcherLoop(rx, code, 0, <<>>).matches

\* Line 761: rule.notPresent.lastIndex = 0, then rule.notPresent.test(code).
Test(rx, code) == Exec(rx, 0, code).found

\* A threshold test that ignores the negative check.
SuggestsWithoutNegativeCheck(rule, code, count) ==
  /\ rule.condition = "present"
  /\ count >= (IF Has(rule, "threshold") /\ rule.threshold # 0 THEN rule.threshold ELSE 1)

\* Lines 756-765: shouldSuggest.
ShouldSuggest(rule, code, count) ==
  /\ rule.condition = "present"
  /\ count >= (IF Has(rule, "threshold") /\ rule.threshold # 0 THEN rule.threshold ELSE 1)
  /\ Has(rule, "notPresent") => ~Test(rule.notPresent, code)

\* Line 777: matches.length >= 5 ? 'high' : matches.length >= 3 ? 'medium' : 'low'.
HighPriorityCount == 5
MediumPriorityCount == 3

\* Lines 768-786: the suggestion pushed, firstMatch being rule.detect.exec(code)
\* from lastIndex 0.
SuggestionFrom(rule, code, count, firstMatch) ==
  [id |-> rule.id, title |-> rule.title, level |-> rule.level,
   priority |-> IF count >= HighPriorityCount THEN "high"
                ELSE IF count >= MediumPriorityCount THEN "medium" ELSE "low",
   currentApproach |->
     [name |-> "Current Implementation",
      description |-> <<"Found", count, "instance(s) of this pattern">>,
      example |-> IF firstMatch.found
                  THEN Substring(code, firstMatch.index, firstMatch.end) ELSE <<>>]
     @@ (IF firstMatch.found THEN [line |-> LineNumber(code, firstMatch.index)]
         ELSE <<>>),
   suggestedApproach |-> rule.suggestion,
   action |-> rule.action]

\* Lines 752-787: the suggestions of one rule with count matches of its detector.
SuggestionsOf(rule, code, count) ==
  IF ShouldSuggest(rule, code, count)
  THEN <<SuggestionFrom(rule, code, count, Exec(rule.detect, 0, code))>>
  ELSE <<>>

\* Lines 747-791.  The detected idioms are a parameter the body never reads.
generateSuggestions(code, detected) ==
  Concat([r \in 1..Len(suggestionRules) |->
            SuggestionsOf(suggestionRules[r], code,
                          Len(MatchAll(suggestionRules[r].detect, code)))])

\* Array.prototype.sort((a, b) => key(a) - key(b)) that puts equal keys in
\* reverse order.
SortReversingTies(seq, keys) ==
  LET place(k) == Cardinality({j \in 1..Len(seq) :
                                 keys[j] < keys[k] \/ (keys[j] = keys[k] /\ j > k)}) + 1
  IN [p \in 1..Len(seq) |-> seq[CHOOSE k \in 1..Len(seq) : place(k) = p]]

\* Array.prototype.sort((a, b) => key(a) - key(b)), keys[k] being the key of
\* seq[k]: the sort is stable, so an element goes after the elements with a
\* smaller key and after the earlier elements with its own key.
SortByKey(seq, keys) ==
  LET place(k) == Cardinality({j \in 1..Len(seq) :
                                 keys[j] < keys[k] \/ (keys[j] = keys[k] /\ j < k)}) + 1
  IN [p \in 1..Len(seq) |-> seq[CHOOSE k \in 1..Len(seq) : place(k) = p]]

\* Line 800: inc.variants.reduce((a, b) => a.count > b.count ? a : b), with
\* accumulator a and the elements from index k on still to visit.
RECURSIVE Reduce(_, _, _)
Reduce(variants, a, k) ==
  IF k > Len(variants) THEN a
  ELSE Reduce(variants, IF a.count > variants[k].count THEN a ELSE variants[k], k + 1)

Dominant(variants) == Reduce(variants, variants[1], 2)

RECURSIVE Sum(_)
Sum(counts) == IF counts = <<>> THEN 0 ELSE Head(counts) + Sum(Tail(counts))

\* A priority that ranks medium with low.
PriorityWithoutMedium(level) == IF level = "high" THEN 1 ELSE 3

\* Lines 804 and 828: x === 'high' ? 1 : x === 'medium' ? 2 : 3.
PriorityOf(level) == IF level = "high" THEN 1 ELSE IF level = "medium" THEN 2 ELSE 3

\* Steps whose numbering leaves out 2: the index of map() taken as 1-based.
StepsWithAGap(others, dominant) ==
  <<[order |-> 1,
     instruction |-> <<"Adopt", dominant.approach, "as the standard (most commonly used:",
                       dominant.count, "instances)">>]>>
  \o [i \in 1..Len(others) |->
        [order |-> i + 2,
         instruction |-> <<"Convert", others[i].count, "instance(s) of",
                           others[i].approach, "to", dominant.approach>>]]

\* Lines 810-821: the steps of an inconsistency item.
StandardizeSteps(others, dominant) ==
  <<[order |-> 1,
     instruction |-> <<"Adopt", dominant.approach, "as the standard (most commonly used:",
                       dominant.count, "instances)">>]>>
  \o [i \in 1..Len(others) |->
        [order |-> i + 1,
         instruction |-> <<"Convert", others[i].count, "instance(s) of",
                           others[i].approach, "to", dominant.approach>>]]

\* Lines 802-823: the item pushed for an inconsistency whose dominant variant
\* is given.
StandardizeItem(inc, dominant) ==
  [id |-> "ACT-" \o inc.id,
   priority |-> PriorityOf(inc.severity),
   type |-> "fix_inconsistency",
   title |-> "Standardize: " \o inc.title,
   reason |-> inc.description,
   effort |-> IF Sum([v \in 1..Len(inc.variants) |-> inc.variants[v].count]) > 10
              THEN "high" ELSE "medium",
   steps |-> StandardizeSteps(SelectSeq(inc.variants,
                                        LAMBDA v : v.approach # dominant.approach),
                              dominant),
   acceptPrompt |-> <<"Shall I refactor to use", dominant.approach, "consistently?">>]

\* Lines 826-844: the item pushed for a suggestion.
SuggestionItem(sug) ==
  [id |-> "ACT-" \o sug.id,
   priority |-> PriorityOf(sug.priority),
   type |-> IF sug.action.type = "refactor" THEN "refactor" ELSE "implement_pattern",
   title |-> sug.title,
   reason |-> sug.suggestedApproach.why,
   effort |-> IF Len(sug.action.steps) > 4 THEN "high"
              ELSE IF Len(sug.action.steps) > 2 THEN "medium" ELSE "low",
   steps |-> [i \in 1..Len(sug.action.steps) |->
                [order |-> i, instruction |-> sug.action.steps[i]]
                @@ (IF i = 1 /\ Has(sug.action, "codeChange")
                    THEN [code |-> [action |-> "replace",
                                    target |-> sug.action.codeChange.before,
                                    content |-> sug.action.codeChange.after]]
                    ELSE <<>>)],
   acceptPrompt |-> <<"Would you like me to implement the", sug.suggestedApproach.name>>]

\* Lines 797-845: the items in push order.
ItemsOf(inconsistencies, suggestions) ==
  [i \in 1..Len(inconsistencies) |->
     StandardizeItem(inconsistencies[i], Dominant(inconsistencies[i].variants))]
  \o [s \in 1..Len(suggestions) |-> SuggestionItem(suggestions[s])]

SortedItems(items) == SortByKey(items, [k \in 1..Len(items) |-> items[k].priority])

\* Lines 793-847.
generateActionItems(inconsistencies, suggestions) ==
  SortedItems(ItemsOf(inconsistencies, suggestions))

PatternLevels == {"architectural", "design", "code", "all"}

\* A filter that keeps the findings of every level.
KeepEveryLevel(items, level) == items

AtLevel(items, level) ==
  IF level = "all" THEN items ELSE SelectSeq(items, LAMBDA x : x.level = level)

\* Lines 868-871.
OverallConsistency(inconsistencies) ==
  IF Len(inconsistencies) = 0 THEN "high"
  ELSE IF /\ Len(inconsistencies) <= 2
          /\ Sum([i \in 1..Len(inconsistencies) |-> Len(inconsistencies[i].variants)]) <= 6
  THEN "medium" ELSE "low"

\* Lines 873-885: the result assembled from the filtered lists.
PatternAnalysis(level, detected, inconsistencies, suggestions) ==
  [level |-> level,
   summary |-> [patternsDetected |-> Len(detected),
                inconsistencies |-> Len(inconsistencies),
                suggestions |-> Len(suggestions),
                overallConsistency |-> OverallConsistency(inconsistencies)],
   detectedPatterns |-> detected,
   inconsistencies |-> inconsistencies,
   suggestions |-> suggestions,
   actionItems |-> generateActionItems(inconsistencies, suggestions)]

\* Lines 862-886, detected being the idioms left by the level filter.
AnalysisFrom(code, level, detected) ==
  PatternAnalysis(level, detected,
                  AtLevel(detectInconsistencies(code), level),
                  AtLevel(generateSuggestions(code, detected), level))

\* Lines 849-886.  The filename is a parameter the body never reads.
analyzePatterns(code, filename, level) ==
  AnalysisFrom(code, level, AtLevel(detectPatterns(code), level))

\* --------------------------------------------------------- index.ts: analyzeCode

\* Lines 70-75: the analyzers in the order their issues are combined.  Each is
\* the scan of its category (core.ts lines 63-77).
AnalyzerOrder == <<"security", "deceptive", "placeholder", "error">>

\* Lines 78-84: severityOrder.
severityOrder == [critical |-> 0, high |-> 1, medium |-> 2, low |-> 3, info |-> 4]

\* Line 85: allIssues.sort((a, b) => severityOrder[a.severity] - severityOrder[b.severity]).
SortBySeverity(allIssues) ==
  SortByKey(allIssues, [k \in 1..Len(allIssues) |-> severityOrder[allIssues[k].severity]])

\* strengths.js: three of the strength patterns, in table order.
\* const\s+\w+\s*=
ImmutableVariables == Cat(<<Lit("const"), Plus(Ws), Plus(Word), WsStar, Lit("=")>>)
\* (?:\?\.|&&\s*\w+\?\.)
OptionalChaining ==
  Alt(<<Lit("?."), Cat(<<Lit("&&"), WsStar, Plus(Word), Lit("?.")>>)>>)
\* \?\?\s*(?![\[\{])
NullishCoalescing == Cat(<<Lit("??"), WsStar, NLook(Chr({"[", "{"}))>>)

strengthPatterns ==
  <<[id |-> "STR030", pattern |-> Global(ImmutableVariables)],
    [id |-> "STR070", pattern |-> Global(OptionalChaining)],
    [id |-> "STR071", pattern |-> Global(NullishCoalescing)]>>

\* matches.slice(0, 3) (line 164).
ExampleCap == 3

\* Lines 160-165: the strength pushed for a pattern with the matches.
StrengthFrom(patternDef, code, matches) ==
  [id |-> patternDef.id,
   examples |-> [k \in 1..Min(ExampleCap, Len(matches)) |->
                   Trim(Substring(code, matches[k].index, matches[k].end))]]

\* Lines 151-169: one strength for every pattern that matches, each id once.
analyzeStrengths(code) ==
  Concat([k \in 1..Len(strengthPatterns) |->
            LET matches == MatchAll(strengthPatterns[k].pattern, code)
            IN IF matches # <<>>
                  /\ \A j \in 1..(k - 1) : strengthPatterns[j].id # strengthPatterns[k].id
               THEN <<StrengthFrom(strengthPatterns[k], code, matches)>>
               ELSE <<>>])

CountOf(issues, severity) ==
  Cardinality({k \in 1..Len(issues) : issues[k].severity = severity})

\* A summary whose total leaves the issues of severity info out.
SummaryWithoutInfo(allIssues, strengths) ==
  [totalIssues |-> CountOf(allIssues, "critical") + CountOf(allIssues, "high")
                   + CountOf(allIssues, "medium") + CountOf(allIssues, "low"),
   critical |-> CountOf(allIssues, "critical"),
   high |-> CountOf(allIssues, "high"),
   medium |-> CountOf(allIssues, "medium"),
   low |-> CountOf(allIssues, "low"),
   strengths |-> Len(strengths)]

\* Lines 88-95.
SummaryOf(allIssues, strengths) ==
  [totalIssues |-> Len(allIssues),
   critical |-> CountOf(allIssues, "critical"),
   high |-> CountOf(allIssues, "high"),
   medium |-> CountOf(allIssues, "medium"),
   low |-> CountOf(allIssues, "low"),
   strengths |-> Len(strengths)]

\* The module state and the issues after one more analyzer has run, a being
\* what the analyzers before it left and n the scan it did.
AfterAnalyzer(a, n) ==
  [cache |-> n.cache, lastIndex |-> n.lastIndex,
   built |-> a.built \/ n.built, warnings |-> a.warnings + n.warnings,
   threw |-> n.threw, diverges |-> n.diverges,
   issues |-> a.issues \o n.issues]

\* Lines 64-75: the analyzers from the k-th on, run in order on the state the
\* earlier ones left; an analyzer that raises or never returns ends the call.
RECURSIVE RunAnalyzers(_, _, _, _, _)
RunAnalyzers(table, a, code, filename, k) ==
  IF k > Len(AnalyzerOrder) \/ a.threw \/ a.diverges THEN a
  ELSE Only({RunAnalyzers(table, AfterAnalyzer(a, n), code, filename, k + 1) :
               n \in {analyzeWithPatterns(table, a.cache, a.lastIndex, code, filename,
                                          AnalyzerOrder[k])}})

\* Lines 97-104: the result, without language and timestamp.
AnalysisResult(a, filename, allIssues, strengths) ==
  [cache |-> a.cache, lastIndex |-> a.lastIndex, built |-> a.built,
   warnings |-> a.warnings, threw |-> a.threw, diverges |-> a.diverges,
   filename |-> filename,
   summary |-> SummaryOf(allIssues, strengths),
   issues |-> allIssues,
   strengths |-> strengths]

SortedAnalysis(a, code, filename) ==
  AnalysisResult(a, filename,
                 IF a.threw \/ a.diverges THEN <<>> ELSE SortBySeverity(a.issues),
                 IF a.threw \/ a.diverges THEN <<>> ELSE analyzeStrengths(code))

\* analyzeCode(code, filename) on the module state (cache, li): the state it
\* leaves and its outcome.
analyzeCode(table, cache, li, code, filename) ==
  Only({SortedAnalysis(a, code, filename) :
          a \in {RunAnalyzers(table,
                              [cache |-> cache, lastIndex |-> li, built |-> FALSE,
                               warnings |-> 0, threw |-> FALSE, diverges |-> FALSE,
                               issues |-> <<>>],
                              code, filename, 1)}})

\* index.ts line 244, the score of the generate_report summary:
\* Math.max(0, 100 - (critical * 25 + high * 15 + medium * 5 + low)).
ToolScore(summary) ==
  Max(0, 100 - (summary.critical * 25 + summary.high * 15 + summary.medium * 5
                + summary.low))

\* Lines 241-251: the answer of generate_report for an analysis with the
\* summary: the score of the markdown text and the report embedded in it.
ReportAnswer(summary) ==
  [score |-> ToolScore(summary), html |-> [score |-> Score(summary)]]

\* ------------------------------------------------------------------- inputs

RECURSIVE SeqsUpTo(_, _)
SeqsUpTo(S, n) ==
  IF n = 0 THEN {<<>>}
  ELSE LET shorter == SeqsUpTo(S, n - 1)
       IN shorter \cup {Append(q, x) : q \in {p \in shorter : Len(p) = n - 1}, x \in S}

ScanAlphabet == {"m", "\n"}

\* The buffer of the line-number example.
LineExample == Chars("a\nb\nmatch\nc")

\* Buffers with leading and trailing white space, a match longer than the
\* snippet length, and text that holds a placeholder and a $ pattern.
LongBuffers ==
  {LineExample,
   Chars("  m \n\tm\r\nmm"),
   Chars("kkkkkkkkkkkkkkkkkkkkkkkk k"),
   Chars("x = '<filename>' === $&")}

Buffers == SeqsUpTo(ScanAlphabet, MaxLen) \cup LongBuffers

PlainFilename == Chars("a.js")
Filenames == {PlainFilename, Chars("$&.ts")}

\* The (code, filename) arguments of a scan.
Requests ==
  {<<code, PlainFilename>> : code \in Buffers}
  \cup {<<code, filename>> : code \in LongBuffers \cup {<<"m">>}, filename \in Filenames}

\* The (code, filename) arguments of the tool calls a client sends.
\* A buffer in which rules of several categories fire, two of them with the
\* same severity, and a later category has the more severe finding.
MixedBuffer == Chars("mk\n// m\nx === y")

\* A buffer with findings and with strengths.
StrongBuffer == Chars("const k = m?.k ?? y\n// m\n")

AnalysisRequests ==
  Requests \cup {<<MixedBuffer, PlainFilename>>, <<StrongBuffer, PlainFilename>>}

\* The buffers of the empty-catch and fallback-value examples.
EmptyCatchExample == Chars("try { risky(); } catch (e) { }")
FallbackExample == Chars("const users = response.data || [];")
ComputedDefaultExample == Chars("const users = response.data || computeDefault();")

\* An assignment with each operator, spacing, right-hand side and ending.
FallbackBuffers ==
  {Chars("const users = response.data ") \o Chars(op) \o sp \o Chars(value) \o end :
     op \in {"||", "??", "&&"}, sp \in {<<>>, <<" ">>},
     value \in {"[]", "[ ]", "{}", "''", "\"\"", "null", "computeDefault()"},
     end \in {<<>>, <<";">>}}

\* A try statement with each parameter list and each handler body.
CatchBuffers ==
  {Chars("try { risky(); } catch ") \o Chars(param) \o <<"{">> \o Chars(body) \o <<"}">> :
     param \in {"(e) ", "(error)", ""},
     body \in {"", " ", "\n", " // ignore\n", " console.log(e); ", " throw e; ",
               " return null; "}}

DeceptiveBuffers == FallbackBuffers \cup CatchBuffers

\* "sk-" followed by n letters and digits.
OpenAiKey(n) == Chars("sk-") \o [i \in 1..n |-> IF i % 2 = 0 THEN "A" ELSE "7"]

\* The text around a key: alone, quoted, assigned to a name that does or does
\* not look like a secret, in a comment, after another key, inside a word.
KeyContexts ==
  {<<Chars(before), Chars(after)>> :
     before \in {"", "const apiKey = \"", "const id = \"", "OPENAI_API_KEY=", "// "},
     after \in {"", "\";"}}
  \cup {<<OpenAiKey(OpenAiKeyLength) \o <<"\n">>, <<>>>>, <<Chars("risk-"), <<>>>>}

SecurityBuffers ==
  {c[1] \o OpenAiKey(n) \o c[2] :
     c \in KeyContexts, n \in (OpenAiKeyLength - 1)..(OpenAiKeyLength + 1)}

SecurityFilenames == Filenames \cup {Chars("src/app.ts")}

\* Buffers joined from pieces on which the rules of OrderTable fire.
OrderPieces == {Chars("m"), Chars("\n"), Chars("// \"m\""), Chars("/* m */")}
OrderBuffers == {Concat(q) : q \in SeqsUpTo(OrderPieces, MaxPieces)}

ToolRequests ==
  {<<code, filename>> : code \in {<<>>, <<"m">>, LineExample}, filename \in Filenames}

\* A record with the optional field fld absent, or present with a value.
Optional(fld, values) == {<<>>} \cup {fld :> v : v \in values}

WordLists == {<<"m">>, <<"a", "b">>}
ValueLists == {<<>>, <<"[]">>, <<"null", "''">>}

\* Match configurations of every variant the types admit, and two whose type
\* is none of them.
MatchConfigs ==
  {[type |-> "empty_block", constructs |-> c] @@ o :
     c \in {<<>>, <<"catch">>, <<"finally">>, <<"try">>, <<".catch", "finally">>,
            <<".then", ".finally">>},
     o \in Optional("allowComments", BOOLEAN)}
  \cup {[type |-> "function_call", names |-> n] @@ o @@ p :
          n \in WordLists, o \in Optional("methods", BOOLEAN),
          p \in Optional("constructors", {TRUE})}
  \cup {[type |-> "returns_only", values |-> v] @@ o :
          v \in ValueLists,
          o \in Optional("withComment", {<<>>, <<"todo">>, <<"fix", "(">>})}
  \cup {[type |-> "contains_text", terms |-> <<"m">>] @@ o @@ p :
          o \in Optional("context", {"comment", "string", "any", "single_line_comment",
                                     "block_comment"}),
          p \in Optional("caseInsensitive", {FALSE})}
  \cup {[type |-> "fallback_value", operators |-> ops, values |-> v] :
          ops \in {<<>>, <<"||">>, <<"||", "??">>}, v \in ValueLists}
  \cup {[type |-> "assignment_pattern", keys |-> <<"key">>] @@ o @@ p :
          o \in Optional("values", {<<>>, <<"x">>}),
          p \in Optional("operators", {<<>>, <<"=">>, <<"=", ":">>})}
  \cup {[type |-> "chained_access", minDepth |-> d, operator |-> op] :
          d \in 0..2, op \in {"?.", "."}}
  \cup {[type |-> "catch_handler", behavior |-> b] :
          b \in {"empty", "comment_only", "log_only", "returns_value", "ignores_error"}}
  \cup {[type |-> "promise_catch", behavior |-> b] @@ o :
          b \in {"empty", "returns_silent", "ignores_param"},
          o \in Optional("silentValues", {<<"null">>})}
  \cup {[type |-> "comment_marker", markers |-> <<"TODO">>] @@ o :
          o \in Optional("style", {"single", "block", "any"})}
  \cup {[type |-> "string_literal", patterns |-> <<"m">>] @@ o :
          o \in Optional("caseInsensitive", BOOLEAN)}
  \cup {[type |-> "secret_pattern", kind |-> k] :
          k \in {"generic", "github", "openai", "aws", "stripe", "custom"}}
  \cup {[type |-> "secret_pattern", kind |-> k, customPattern |-> src] :
          k \in {"custom", "aws"}, src \in {EmptyString, Lit("m"), BadSource}}
  \cup {[type |-> "url_pattern"] @@ o @@ p :
          o \in Optional("protocol", {"http", "https", "any"}),
          p \in Optional("excludeLocalhost", {TRUE})}
  \cup {[type |-> "suppression_comment", tools |-> w] : w \in WordLists}
  \cup {[type |-> "type_cast", targets |-> w] : w \in WordLists}
  \cup {[type |-> "comparison", operators |-> ops] @@ o :
          ops \in {<<>>, <<"==">>, <<"!=">>, <<"===", "!==">>},
          o \in Optional("strict", {TRUE})}
  \cup {[type |-> "loop_pattern", kind |-> k] : k \in {"for_in", "while_true", "infinite"}}
  \cup {[type |-> "raw_regex", pattern |-> src] @@ o :
          src \in {EmptyString, Lit("m"), BadSource},
          o \in Optional("flags", {"", "gi", "x"})}
  \cup {[type |-> "regex"], [type |-> "unknown_variant"]}

\* One definition for every match configuration.
SampleDefinitions == {Rule("CS-GEN001", "medium", "error", config) : config \in MatchConfigs}

\* The summary of an AnalysisResult, each count up to MaxCount.
Summaries ==
  [critical : 0..MaxCount, high : 0..MaxCount, medium : 0..MaxCount,
   low : 0..MaxCount, strengths : 0..MaxCount]

NoInput == [kind |-> "none"]

\* Lines joined by line feeds.
JoinLines(lines) ==
  Concat([k \in 1..Len(lines) |-> IF k = 1 THEN lines[k] ELSE <<"\n">> \o lines[k]])

Repeated(line, n) == [k \in 1..n |-> line]

\* One line for each async style of CS-INC001.
AwaitLine == Chars("await a")
ThenLine == Chars("b.then(c)")
CallbackLine == Chars("d(e, cb)")

\* Buffers that use each async style up to MaxRepeat times, in either order.
StyleBuffers ==
  UNION {{JoinLines(Repeated(AwaitLine, a) \o Repeated(ThenLine, b)
                    \o Repeated(CallbackLine, c)),
          JoinLines(Repeated(CallbackLine, c) \o Repeated(ThenLine, b)
                    \o Repeated(AwaitLine, a))} :
           a \in 0..MaxRepeat, b \in 0..MaxRepeat, c \in 0..MaxRepeat}

\* Buffers of the other concerns: two styles on one line, four null-handling
\* styles, error-handling, export and function styles.
ConcernBuffers ==
  {Chars("await a; await b\nb.then(c)"),
   Chars("x?.y ?? z"),
   Chars("x?.y ?? z || null\nif (w == null) v?.u"),
   Chars("try { f() } catch (e) { g(err, h) }\nq.catch(r)"),
   Chars("export const a = 1\nexport default a\nmodule.exports = a"),
   Chars("const f = (x) => x\nfunction g() {\n}")}

\* Buffers for the idiom matchers: a line repeated up to one more time than
\* the location cap, matches that share a line, matches of two patterns of a
\* matcher, leading white space, no idiom at all.
IdiomBuffers ==
  {JoinLines(Repeated(AwaitLine, n)) : n \in 0..(LocationCap + 1)}
  \cup {JoinLines(Repeated(Chars("  await a; await b"), n) \o <<AwaitLine>>) :
          n \in {1, 2, LocationCap + 1}}
  \cup {JoinLines(Repeated(AwaitLine, VariantLocationCap + 1) \o <<ThenLine, CallbackLine>>),
        Chars("async function f() {\n  await a\n}"),
        Chars("await a\nasync function f() { await a }\nawait a"),
        Chars("class UserRepository {\n  findAll() {\n  }\n}"),
        Chars("p.then(x => x).catch(function (e) {})\nf(function (a, cb) {})"),
        Chars("let x = 1")}

ReturnNullLine == Chars("return null;")
DatabaseLine == Chars("db.user.find")

\* Buffers for the suggestion rules: the detector matching up to the count
\* that makes the priority high, with and without the text of the negative
\* check; a rule without a threshold.
SuggestionBuffers ==
  {JoinLines(Repeated(ReturnNullLine, n) \o tail) :
     n \in 0..HighPriorityCount, tail \in {<<>>, <<Chars("Ok(v)")>>}}
  \cup {JoinLines(Repeated(DatabaseLine, n) \o tail) :
          n \in 2..HighPriorityCount, tail \in {<<>>, <<Chars("class UserRepository")>>}}
  \cup {Chars("return undefined ;\nreturn  null;"),
        Chars("switch (k) { case 1: case 'b': case c: case d: }"),
        Chars("switch (k) { case 1: case 2: case 3: }")}

AdvisoryBuffers == StyleBuffers \cup ConcernBuffers \cup IdiomBuffers \cup SuggestionBuffers

\* An inconsistency as detectInconsistencies builds it, with the given
\* severity and one variant for each of the counts.
SampleInconsistency(detector, severity, counts) ==
  [InconsistencyFrom(detector,
                     [k \in 1..Len(counts) |->
                        [approach |-> detector.variants[k].name, locations |-> <<>>,
                         count |-> counts[k]]])[1]
   EXCEPT !.severity = severity]

SampleInconsistencies ==
  {SampleInconsistency(MixedAsyncStyles, "high", <<2, 1>>),
   SampleInconsistency(MixedAsyncStyles, "medium", <<1, 2, 2>>),
   SampleInconsistency(MixedErrorHandling, "low", <<2, 2>>),
   SampleInconsistency(MixedNullHandling, "medium", <<3, 1, 3, 2>>),
   SampleInconsistency(MixedExportStyles, "low", <<1, 2>>)}

\* A suggestion as generateSuggestions builds it from count matches.
SampleSuggestion(rule, count) ==
  SuggestionFrom(rule, JoinLines(Repeated(ReturnNullLine, count)), count,
                 [found |-> FALSE])

SampleSuggestions ==
  {SampleSuggestion(ResultPatternRule, MediumPriorityCount - 1),
   SampleSuggestion(RepositoryLayerRule, MediumPriorityCount),
   SampleSuggestion(StrategyPatternRule, HighPriorityCount)}

\* ------------------------------------------------------------ the state machine

VARIABLES
  defs,           \* the rule table the module was loaded with
  compiledCache,  \* compiler.ts line 434
  lastIndex,      \* lastIndex of every RegExp held by the cache
  warnings,       \* console.warn calls so far
  hung,           \* a scan loop that never ends is running
  builds,         \* how many times the cache build (lines 461-465) was entered
  nCalls,         \* calls made so far
  call,           \* the last call and its outcome
  pending,        \* tool requests received by the server and not yet handled
  input           \* the argument a pure function is applied to

vars ==
  <<defs, compiledCache, lastIndex, warnings, hung, builds, nCalls, call, pending, input>>

NoCall == [op |-> "none"]

InitWith(tables, inputs) ==
  /\ defs \in tables
  /\ compiledCache = NullCache
  /\ lastIndex = <<>>
  /\ warnings = 0
  /\ hung = FALSE
  /\ builds = 0
  /\ nCalls = 0
  /\ call = NoCall
  /\ pending = <<>>
  /\ input \in inputs

CanCall == ~hung /\ nCalls < MaxCalls

\* getCompiledPatterns(category?) called by a client of the module.
GetCompiledPatterns(category) ==
  /\ CanCall
  /\ \E g \in {getCompiledPatterns(defs, compiledCache, lastIndex, category)} :
        /\ compiledCache' = g.cache
        /\ lastIndex' = g.lastIndex
        /\ warnings' = warnings + g.warnings
        /\ builds' = IF g.built THEN builds + 1 ELSE builds
        /\ call' = [op |-> "getCompiledPatterns", category |-> category,
                    outcome |-> IF g.threw THEN "threw" ELSE "returned",
                    built |-> g.built, result |-> g.result]
  /\ nCalls' = nCalls + 1
  /\ UNCHANGED <<defs, hung, pending, input>>

\* clearPatternCache().
ClearPatternCache ==
  /\ CanCall
  /\ compiledCache' = clearPatternCache(compiledCache)
  /\ lastIndex' = IF compiledCache'.isNull THEN <<>> ELSE lastIndex
  /\ call' = [op |-> "clearPatternCache"]
  /\ nCalls' = nCalls + 1
  /\ UNCHANGED <<defs, warnings, hung, builds, pending, input>>

\* The record of an analyzeWithPatterns call.
ScanRecord(op, code, filename, category, a) ==
  [op |-> op, code |-> code, filename |-> filename, category |-> category,
   outcome |-> IF a.threw THEN "threw" ELSE IF a.diverges THEN "diverged" ELSE "returned",
   built |-> a.built, issues |-> a.issues, matches |-> a.matches]

\* analyzeWithPatterns(code, filename, category).
AnalyzeWithPatterns(code, filename, category) ==
  /\ CanCall
  /\ \E a \in {analyzeWithPatterns(defs, compiledCache, lastIndex, code, filename, category)} :
        /\ compiledCache' = a.cache
        /\ lastIndex' = a.lastIndex
        /\ warnings' = warnings + a.warnings
        /\ builds' = IF a.built THEN builds + 1 ELSE builds
        /\ hung' = a.diverges
        /\ call' = ScanRecord("analyzeWithPatterns", code, filename, category, a)
  /\ nCalls' = nCalls + 1
  /\ UNCHANGED <<defs, pending, input>>

\* validateDefinitions().
ValidateDefinitions ==
  /\ CanCall
  /\ \E v \in {validateDefinitions(defs)} :
        /\ warnings' = warnings + v.warnings
        /\ call' = [op |-> "validateDefinitions", valid |-> v.valid, errors |-> v.errors]
  /\ nCalls' = nCalls + 1
  /\ UNCHANGED <<defs, compiledCache, lastIndex, hung, builds, pending, input>>

\* buildPattern(config) on the drawn configuration.
BuildPattern ==
  /\ CanCall
  /\ input.kind = "config"
  /\ \E b \in {buildPattern(input.config)} :
        /\ warnings' = warnings + (IF b.warned THEN 1 ELSE 0)
        /\ call' = [op |-> "buildPattern", config |-> input.config,
                    outcome |-> IF b.threw THEN "threw" ELSE "returned",
                    patterns |-> b.patterns]
  /\ nCalls' = nCalls + 1
  /\ UNCHANGED <<defs, compiledCache, lastIndex, hung, builds, pending, input>>

\* compileDefinition(definition) on the drawn definition.
CompileDefinition ==
  /\ CanCall
  /\ input.kind = "definition"
  /\ \E c \in {compileDefinition(input.definition)} :
        /\ warnings' = warnings + (IF c.warned THEN 1 ELSE 0)
        /\ call' = [op |-> "compileDefinition", definition |-> input.definition,
                    outcome |-> IF c.threw THEN "threw" ELSE "returned",
                    warned |-> c.warned,
                    patterns |-> IF c.threw THEN <<>> ELSE c.compiled.patterns]
  /\ nCalls' = nCalls + 1
  /\ UNCHANGED <<defs, compiledCache, lastIndex, hung, builds, pending, input>>

\* generateHtmlReport(result) on the drawn summary: the score it renders.
GenerateHtmlReport ==
  /\ CanCall
  /\ input.kind = "summary"
  /\ call' = [op |-> "generateHtmlReport", summary |-> input.summary,
              score |-> Score(input.summary)]
  /\ nCalls' = nCalls + 1
  /\ UNCHANGED <<defs, compiledCache, lastIndex, warnings, hung, builds, pending, input>>

\* A client sends an analyze_code tool call: the transport queues the message.
Receive(code, filename) ==
  /\ ~hung
  /\ Len(pending) < MaxPending
  /\ nCalls + Len(pending) < MaxCalls
  /\ pending' = Append(pending, [code |-> code, filename |-> filename])
  /\ UNCHANGED <<defs, compiledCache, lastIndex, warnings, hung, builds, nCalls, call, input>>

\* The CallTool handler on the oldest queued message.  The handler has no
\* await: it runs to its return before the event loop starts the next one.
\* analyzeCode reaches the compiled rules through analyzePlaceholders; an
\* exception is caught (line 328) and answered with an error text.
HandleCallTool ==
  /\ CanCall
  /\ pending # <<>>
  /\ \E a \in {analyzeWithPatterns(defs, compiledCache, lastIndex, Head(pending).code,
                                   Head(pending).filename, "placeholder")} :
        /\ compiledCache' = a.cache
        /\ lastIndex' = a.lastIndex
        /\ warnings' = warnings + a.warnings
        /\ builds' = IF a.built THEN builds + 1 ELSE builds
        /\ hung' = a.diverges
        /\ call' = ScanRecord("CallTool", Head(pending).code, Head(pending).filename,
                              "placeholder", a)
  /\ pending' = Tail(pending)
  /\ nCalls' = nCalls + 1
  /\ UNCHANGED <<defs, input>>

Next ==
  \/ \E category \in Categories \cup {NoCategory} : GetCompiledPatterns(category)
  \/ ClearPatternCache
  \/ \E r \in Requests, category \in Categories : AnalyzeWithPatterns(r[1], r[2], category)
  \/ ValidateDefinitions

\* The module loaded with a well-formed rule table.
Init == InitWith(WellFormedTables, {NoInput})
Spec == Init /\ [][Next]_vars

\* The module loaded with any of the tables, mis-authored ones included.
InitAuthoring == InitWith(AllTables, {NoInput})
SpecAuthoring == InitAuthoring /\ [][Next]_vars

\* The builders and the compiler applied to a drawn configuration or
\* definition, and the validation of the loaded table.
BuildInputs ==
  {[kind |-> "config", config |-> c] : c \in MatchConfigs}
  \cup {[kind |-> "definition", definition |-> d] : d \in SampleDefinitions}
InitBuild == InitWith(AllTables, BuildInputs)
NextBuild == BuildPattern \/ CompileDefinition \/ ValidateDefinitions
SpecBuild == InitBuild /\ [][NextBuild]_vars

\* The report generator applied to a drawn summary.
InitReport == InitWith({TableA}, {[kind |-> "summary", summary |-> s] : s \in Summaries})
NextReport == GenerateHtmlReport
SpecReport == InitReport /\ [][NextReport]_vars

\* analyzeCode(code, filename).
AnalyzeCode(code, filename) ==
  /\ CanCall
  /\ \E a \in {analyzeCode(defs, compiledCache, lastIndex, code, filename)} :
        /\ compiledCache' = a.cache
        /\ lastIndex' = a.lastIndex
        /\ warnings' = warnings + a.warnings
        /\ builds' = IF a.built THEN builds + 1 ELSE builds
        /\ hung' = a.diverges
        /\ call' = [op |-> "analyzeCode", code |-> code, filename |-> filename,
                    outcome |-> IF a.threw THEN "threw"
                                ELSE IF a.diverges THEN "diverged" ELSE "returned",
                    built |-> a.built, issues |-> a.issues, summary |-> a.summary,
                    strengths |-> a.strengths]
  /\ nCalls' = nCalls + 1
  /\ UNCHANGED <<defs, pending, input>>

\* analyzeCode on a well-formed rule table.
InitAnalyze == InitWith(WellFormedTables, {NoInput})
NextAnalyze == \E r \in AnalysisRequests : AnalyzeCode(r[1], r[2])
SpecAnalyze == InitAnalyze /\ [][NextAnalyze]_vars

\* analyzeDeceptiveWithPatterns(code, filename), as the first call after the
\* module is loaded; a later scan returns what a first scan returns.
AnalyzeDeceptiveWithPatterns(code, filename) ==
  /\ call = NoCall
  /\ AnalyzeWithPatterns(code, filename, "deceptive")

\* A deceptive scan with the shipped deceptive rules.
InitDeceptive == InitWith({DeceptiveTable}, {NoInput})
NextDeceptive == \E code \in DeceptiveBuffers : AnalyzeDeceptiveWithPatterns(code, PlainFilename)
SpecDeceptive == InitDeceptive /\ [][NextDeceptive]_vars

\* analyzeSecurityWithPatterns(code, filename), as the first call after the
\* module is loaded.
AnalyzeSecurityWithPatterns(code, filename) ==
  /\ call = NoCall
  /\ AnalyzeWithPatterns(code, filename, "security")

\* A security scan with the shipped security rules.
InitSecurity == InitWith({SecurityTable}, {NoInput})
NextSecurity ==
  \E code \in SecurityBuffers, filename \in SecurityFilenames :
     AnalyzeSecurityWithPatterns(code, filename)
SpecSecurity == InitSecurity /\ [][NextSecurity]_vars

\* One scan of a buffer with rules that fire on the same text, as the first
\* call after the module is loaded.
InitOrder == InitWith({OrderTable}, {NoInput})
NextOrder ==
  \E code \in OrderBuffers, category \in {"security", "deceptive"} :
     call = NoCall /\ AnalyzeWithPatterns(code, PlainFilename, category)
SpecOrder == InitOrder /\ [][NextOrder]_vars

\* The CallTool handler for the tool analyze_code on the oldest queued message
\* (lines 236-239): analyzeCode, all four analyzers, runs to its return before
\* the event loop starts the next handler.
HandleAnalyzeCode ==
  /\ CanCall
  /\ pending # <<>>
  /\ \E a \in {analyzeCode(defs, compiledCache, lastIndex, Head(pending).code,
                           Head(pending).filename)} :
        /\ compiledCache' = a.cache
        /\ lastIndex' = a.lastIndex
        /\ warnings' = warnings + a.warnings
        /\ builds' = IF a.built THEN builds + 1 ELSE builds
        /\ hung' = a.diverges
        /\ call' = [op |-> "analyze_code", code |-> Head(pending).code,
                    filename |-> Head(pending).filename,
                    outcome |-> IF a.threw THEN "threw"
                                ELSE IF a.diverges THEN "diverged" ELSE "returned",
                    built |-> a.built, issues |-> a.issues, summary |-> a.summary]
  /\ pending' = Tail(pending)
  /\ nCalls' = nCalls + 1
  /\ UNCHANGED <<defs, input>>

\* analyze_code requests that arrive while earlier ones are queued, on a
\* well-formed rule table.
InitShared == InitWith(WellFormedTables, {NoInput})
NextShared ==
  \/ \E r \in ToolRequests : Receive(r[1], r[2])
  \/ HandleAnalyzeCode
SpecShared == InitShared /\ [][NextShared]_vars

\* The generate_report tool on an analysis with the drawn summary.
GenerateReport ==
  /\ CanCall
  /\ input.kind = "summary"
  /\ call' = [op |-> "generate_report", summary |-> input.summary,
              answer |-> ReportAnswer(input.summary)]
  /\ nCalls' = nCalls + 1
  /\ UNCHANGED <<defs, compiledCache, lastIndex, warnings, hung, builds, pending, input>>

InitToolReport == InitWith({TableA}, {[kind |-> "summary", summary |-> s] : s \in Summaries})
NextToolReport == GenerateReport
SpecToolReport == InitToolReport /\ [][NextToolReport]_vars

\* Text that shipped rules of each list fire on.
ShippedBuffers ==
  {Chars("// TODO: m\n"), Chars("var k; var k = eval(m)"), Chars("debugger;"),
   Chars("if (k == 1.5) {}")}

\* The module as shipped: the four definition lists, validated, compiled and
\* scanned with by a client in any order.
InitShipped == InitWith({ShippedTable}, {NoInput})
NextShipped ==
  \/ ValidateDefinitions
  \/ \E category \in Categories : GetCompiledPatterns(category)
  \/ ClearPatternCache
  \/ \E code \in ShippedBuffers, category \in DOMAIN ShippedTable :
        AnalyzeWithPatterns(code, PlainFilename, category)
SpecShipped == InitShipped /\ [][NextShipped]_vars

\* validateDefinitions() on a generated rule table.
InitValidate == InitWith(ValidationTables, {NoInput})
NextValidate == ValidateDefinitions
SpecValidate == InitValidate /\ [][NextValidate]_vars

\* The server: tool calls arrive while earlier ones are still queued.
InitServer == InitWith(AllTables, {NoInput})
NextServer ==
  \/ \E r \in ToolRequests : Receive(r[1], r[2])
  \/ HandleCallTool
SpecServer == InitServer /\ [][NextServer]_vars

\* detectInconsistencies(code) on the drawn buffer.
\* Every function of the engine resets the lastIndex of each expression before
\* it uses it (lines 666, 712, 753, 761) and keeps nothing else between calls:
\* one application to the drawn input covers a behaviour.
Fresh == CanCall /\ call = NoCall

Applied(op, result) ==
  /\ call' = [op |-> op, outcome |-> "returned", result |-> result]
  /\ nCalls' = nCalls + 1
  /\ UNCHANGED <<defs, compiledCache, lastIndex, warnings, hung, builds, pending, input>>

DetectPatterns ==
  /\ Fresh
  /\ input.kind = "buffer"
  /\ Applied("detectPatterns", detectPatterns(input.code))

DetectInconsistencies ==
  /\ Fresh
  /\ input.kind = "buffer"
  /\ Applied("detectInconsistencies", detectInconsistencies(input.code))

GenerateSuggestions ==
  /\ Fresh
  /\ input.kind = "buffer"
  /\ Applied("generateSuggestions", generateSuggestions(input.code, <<>>))

GenerateActionItems ==
  /\ Fresh
  /\ input.kind = "findings"
  /\ Applied("generateActionItems",
             generateActionItems(input.inconsistencies, input.suggestions))

AnalyzePatterns ==
  /\ Fresh
  /\ input.kind = "buffer"
  /\ Applied("analyzePatterns", analyzePatterns(input.code, "a.ts", input.level))

ListsOf(pool) == UNION {[1..n -> pool] : n \in 0..MaxFindings}

\* The advisory engine applied to a drawn buffer at a drawn level, and
\* generateActionItems applied to drawn findings.
\* A buffer with a finding of level code and a suggestion of level
\* architectural.
LevelsBuffer == JoinLines(<<AwaitLine, ThenLine>> \o Repeated(DatabaseLine, MediumPriorityCount))

AdvisoryInputs ==
  {[kind |-> "buffer", code |-> b, level |-> "all"] : b \in AdvisoryBuffers}
  \cup {[kind |-> "buffer", code |-> LevelsBuffer, level |-> l] : l \in PatternLevels}
  \cup {[kind |-> "buffer", code |-> b, level |-> l] :
          b \in ConcernBuffers, l \in PatternLevels \ {"all"}}
  \cup {[kind |-> "findings", inconsistencies |-> i, suggestions |-> g] :
          i \in ListsOf(SampleInconsistencies), g \in ListsOf(SampleSuggestions)}
InitAdvisory == InitWith({TableA}, AdvisoryInputs)
NextAdvisory ==
  \/ DetectPatterns
  \/ DetectInconsistencies
  \/ GenerateSuggestions
  \/ GenerateActionItems
  \/ AnalyzePatterns
SpecAdvisory == InitAdvisory /\ [][NextAdvisory]_vars

\* ---------------------------------------------------------------- properties

Returned(op) == call.op = op /\ call.outcome = "returned"

\* The matched text of the j-th issue of the last scan.
MatchedText(j) == Substring(call.code, call.matches[j].index, call.matches[j].end)

\* C1: whatever calls came before, analyzeWithPatterns(B, f, c) returns the
\* Issue list, in the same order, that the first scan of B on a freshly built
\* cache returns.
ScanIsHistoryIndependent ==
  call.op = "analyzeWithPatterns" =>
    /\ call.outcome = "returned"
    /\ call.issues = analyzeWithPatterns(defs, NullCache, <<>>, call.code, call.filename,
                                         call.category).issues

\* A scan with findings on a cache built by an earlier call, some matcher of
\* which was left at a position other than 0.
ScanOnUsedCache ==
  /\ Returned("analyzeWithPatterns")
  /\ nCalls >= 2
  /\ ~call.built
  /\ call.issues # <<>>
  /\ \E c \in DOMAIN lastIndex :
       \E r \in 1..Len(lastIndex[c]) : \E k \in 1..Len(lastIndex[c][r]) :
          lastIndex[c][r][k] # 0

\* The number of line breaks among the first index characters of code.
LineBreaksBefore(code, index) == Cardinality({k \in 1..index : code[k] = "\n"})

\* The text of the line that holds offset index, and a text without the
\* white space at its two ends.
LineTextAt(code, index) ==
  LET before == {k \in 1..index : code[k] = "\n"}
      after == {k \in (index + 1)..Len(code) : code[k] = "\n"}
      start == IF before = {} THEN 0 ELSE CHOOSE k \in before : \A h \in before : h <= k
      stop == IF after = {} THEN Len(code) + 1
              ELSE CHOOSE k \in after : \A h \in after : k <= h
  IN SubSeq(code, start + 1, stop - 1)

Trimmed(text) ==
  LET ink == {k \in 1..Len(text) : text[k] \notin WhiteSpace}
  IN IF ink = {} THEN <<>>
     ELSE SubSeq(text, CHOOSE k \in ink : \A h \in ink : k <= h,
                 CHOOSE k \in ink : \A h \in ink : h <= k)

\* C6: an Issue for a match starting at offset i has line = 1 + the number of
\* line breaks in buffer[0..i), which lies between 1 and the number of lines,
\* its snippet is the trimmed text of that line, and a match of "match" in
\* "a\nb\nmatch\nc" is reported on line 3.
LineNumberIsRight ==
  Returned("analyzeWithPatterns") =>
    \A j \in 1..Len(call.issues) :
      /\ call.issues[j].line = 1 + LineBreaksBefore(call.code, call.matches[j].index)
      /\ call.issues[j].line >= 1
      /\ call.issues[j].line <= 1 + LineBreaksBefore(call.code, Len(call.code))
      /\ call.issues[j].code = Trimmed(LineTextAt(call.code, call.matches[j].index))
      /\ (call.code = LineExample /\ MatchedText(j) = Chars("match"))
           => call.issues[j].line = 3

\* The rule matching "match" has reported the example buffer's third line.
LineExampleScanned ==
  /\ Returned("analyzeWithPatterns")
  /\ call.code = LineExample
  /\ \E j \in 1..Len(call.issues) :
       /\ MatchedText(j) = Chars("match")
       /\ call.issues[j].line = 3
       /\ call.issues[j].code = Chars("match")

\* The definition of the loaded table with the given id.
DefinitionOf(id) ==
  LET all == getDefinitions(defs)
  IN all[CHOOSE k \in 1..Len(all) : all[k].id = id]

\* The template with every <matched_value> replaced by value and every
\* <filename> by name, both taken literally.
RECURSIVE Filled(_, _, _, _)
Filled(template, value, name, i) ==
  LET tagAt(tag, j) == j + Len(tag) <= Len(template)
                       /\ SubSeq(template, j + 1, j + Len(tag)) = tag
      tags == {j \in i..Len(template) : tagAt(MatchedValueTag, j) \/ tagAt(FilenameTag, j)}
  IN IF tags = {} THEN SubSeq(template, i + 1, Len(template))
     ELSE LET at == CHOOSE j \in tags : \A h \in tags : j <= h
          IN SubSeq(template, i + 1, at)
             \o (IF tagAt(MatchedValueTag, at)
                 THEN value \o Filled(template, value, name, at + Len(MatchedValueTag))
                 ELSE name \o Filled(template, value, name, at + Len(FilenameTag)))

\* C7: each command of a finding is its rule's template command with every
\* <matched_value> replaced by the first 20 characters of the matched text and
\* an ellipsis, and every <filename> by exactly the filename argument.
CommandsAreFilledIn ==
  Returned("analyzeWithPatterns") =>
    \A j \in 1..Len(call.issues) :
      (Has(call.issues[j], "verification") /\ Has(call.issues[j].verification, "commands"))
        => LET templates == DefinitionOf(call.issues[j].id).verification.commands
               value == Substring(MatchedText(j), 0, SnippetLen) \o Ellipsis
           IN call.issues[j].verification.commands =
                [k \in 1..Len(templates) |-> Filled(templates[k], value, call.filename, 0)]

\* The compiled rules a getCompiledPatterns call returns from a built cache.
CachedRules(cache, category) ==
  IF category = NoCategory
  THEN Concat([k \in 1..Len(CategoryOrder) |-> cache.map[CategoryOrder[k]]])
  ELSE IF category \in DOMAIN cache.map THEN cache.map[category]
  ELSE <<>>

\* The cache holds, for each of the four categories, one compiled rule per
\* definition of the table, in the table's order.
HoldsAllCategories(cache, table) ==
  /\ ~cache.isNull
  /\ DOMAIN cache.map = {CategoryOrder[k] : k \in 1..Len(CategoryOrder)}
  /\ \A c \in DOMAIN cache.map :
       /\ Len(cache.map[c]) = Len(table[c])
       /\ \A r \in 1..Len(table[c]) :
            /\ cache.map[c][r].id = table[c][r].id
            /\ cache.map[c][r].patterns = buildPattern(table[c][r].match).patterns

GetStep == call'.op = "getCompiledPatterns" /\ nCalls' = nCalls + 1
ClearStep == call'.op = "clearPatternCache" /\ nCalls' = nCalls + 1

\* C8: the cache is unbuilt until the first getCompiledPatterns call, which
\* compiles all four categories; a later getCompiledPatterns call, with any
\* category or none, returns the cached rules without compiling again; after
\* clearPatternCache the cache is unbuilt and the next call builds it again.
CacheIsBuiltLazily ==
  /\ compiledCache = NullCache
  /\ [][/\ (compiledCache = NullCache /\ compiledCache' # NullCache)
             => (call'.op \in {"getCompiledPatterns", "analyzeWithPatterns"} /\ call'.built)
        /\ (GetStep /\ compiledCache = NullCache)
             => /\ call'.built
                /\ builds' = builds + 1
                /\ HoldsAllCategories(compiledCache', defs)
        /\ (GetStep /\ compiledCache # NullCache)
             => /\ ~call'.built
                /\ builds' = builds
                /\ compiledCache' = compiledCache
        /\ GetStep
             => /\ call'.outcome = "returned"
                /\ call'.result = CachedRules(compiledCache', call'.category)
        /\ ClearStep => compiledCache' = NullCache]_vars

\* A getCompiledPatterns call has built the cache for the second time, after
\* a clearPatternCache.
CacheRebuiltAfterClear ==
  /\ Returned("getCompiledPatterns")
  /\ call.built
  /\ builds = 2
  /\ HoldsAllCategories(compiledCache, defs)

\* Two definitions of the table have the same id.
HasDuplicateIds(table) ==
  LET all == getDefinitions(table)
  IN \E j, k \in 1..Len(all) : j < k /\ all[j].id = all[k].id

ScanNeverThrows ==
  call.op = "analyzeWithPatterns" => call.outcome # "threw"

NamesNoMatcher(config) ==
  CASE config.type = "empty_block" ->
         \A k \in 1..Len(config.constructs) :
            config.constructs[k] \notin {"catch", "finally", ".catch", ".then", ".finally"}
    [] config.type = "fallback_value" -> config.operators = <<>>
    [] config.type = "assignment_pattern" ->
         Has(config, "operators") /\ config.operators = <<>>
    [] config.type = "comparison" ->
         \A k \in 1..Len(config.operators) :
            config.operators[k] \notin {"==", "!=", "===", "!=="}
    [] config.type = "secret_pattern" ->
         config.kind = "custom"
         /\ (~Has(config, "customPattern") \/ config.customPattern = EmptyString)
    [] OTHER -> FALSE

\* A configuration with text that is no regular expression source, or flags
\* that are no RegExp flags.
HoldsBadSource(config) ==
  CASE config.type = "raw_regex" ->
         config.pattern = BadSource
         \/ (Has(config, "flags") /\ \E k \in 1..Len(config.flags) :
                                        SubSeq(config.flags, k, k) \notin RegExpFlags)
    [] config.type = "secret_pattern" ->
         config.kind = "custom" /\ Has(config, "customPattern")
         /\ config.customPattern = BadSource
    [] config.type = "returns_only" ->
         Has(config, "withComment")
         /\ \E k \in 1..Len(config.withComment) :
               config.withComment[k] \in {"(", ")", "[", "*", "+", "?"}
    [] OTHER -> FALSE

CacheIsBuiltOnce ==
  /\ [](builds = IF nCalls > 0 THEN 1 ELSE 0)
  /\ [][compiledCache # NullCache => compiledCache' = compiledCache]_vars

\* A second tool call was handled on the cache the first one built, while
\* another call was waiting.
SecondCallUsedTheCache ==
  /\ call.op = "CallTool"
  /\ nCalls >= 2
  /\ ~call.built
  /\ builds = 1
  /\ pending # <<>>

\* C10: the score is max(0, min(100, 100 - 25 critical - 15 high - 5 medium
\* - low + 2 strengths)), so it lies in 0..100; for 1 critical, 1 high and 2
\* strengths it is 64.
ScoreIsClamped ==
  call.op = "generateHtmlReport"
    => LET c == call.summary
           raw == 100 - 25 * c.critical - 15 * c.high - 5 * c.medium - c.low
                  + 2 * c.strengths
       IN /\ call.score = IF raw < 0 THEN 0 ELSE IF raw > 100 THEN 100 ELSE raw
          /\ call.score \in 0..100
          /\ (c.critical = 1 /\ c.high = 1 /\ c.medium = 0 /\ c.low = 0 /\ c.strengths = 2)
               => call.score = 64

\* The report of 1 critical, 1 high and 2 strengths was scored 64.
ExampleScored ==
  /\ call.op = "generateHtmlReport"
  /\ call.summary = [critical |-> 1, high |-> 1, medium |-> 0, low |-> 0, strengths |-> 2]
  /\ call.score = 64

\* ------------------------------------------------- properties: advisory engine

\* How many lines of the buffer are the given line.
LinesEqualTo(code, line) ==
  Cardinality({k \in 1..Len(Split(code)) : Split(code)[k] = line})

\* The findings of one concern in the result of the last call.
FindingsFor(id) == SelectSeq(call.result, LAMBDA f : f.id = id)

\* The approach a recommendation text tells the reader to standardize on.
Recommends(text, approach) ==
  LET opening == "Standardize on " \o approach
  IN Len(text) >= Len(opening) /\ SubSeq(text, 1, Len(opening)) = opening

\* A variant of the finding that occurs more often than every other one.
OccursMost(finding, v) ==
  \A w \in 1..Len(finding.variants) :
     w # v => finding.variants[v].count > finding.variants[w].count

\* C11: a buffer that uses async/await and .then(...) at least once each
\* yields exactly one Mixed Async Styles finding, and the finding recommends
\* the variant with the higher occurrence count.
RecommendationFollowsTheCounts ==
  (/\ call.op = "detectInconsistencies"
   /\ LinesEqualTo(input.code, AwaitLine) >= 1
   /\ LinesEqualTo(input.code, ThenLine) >= 1)
  => /\ Len(FindingsFor("CS-INC001")) = 1
     /\ \A v \in 1..Len(FindingsFor("CS-INC001")[1].variants) :
           OccursMost(FindingsFor("CS-INC001")[1], v)
           => Recommends(FindingsFor("CS-INC001")[1].recommendation,
                         FindingsFor("CS-INC001")[1].variants[v].approach)

\* The variant with the highest count and, of those, the first one in the
\* enumeration order of the variants.
FirstHighest(variants) ==
  variants[CHOOSE k \in 1..Len(variants) :
             /\ \A j \in 1..Len(variants) : variants[j].count <= variants[k].count
             /\ \A j \in 1..(k - 1) : variants[j].count < variants[k].count]

\* The item names the approach in its first step and in its accept prompt.
NamesAsDominant(item, approach) ==
  /\ item.steps[1].instruction[2] = approach
  /\ item.acceptPrompt[2] = approach

\* C12: when two or more variants of an inconsistency tie for the highest
\* count, the action item of the inconsistency names as dominant, in its first
\* step and in its accept prompt, the first of them in enumeration order.
TiesGoToTheFirstVariant ==
  call.op = "generateActionItems"
  => \A i \in 1..Len(input.inconsistencies) :
        \E k \in 1..Len(call.result) :
           /\ call.result[k].id = "ACT-" \o input.inconsistencies[i].id
           /\ call.result[k].reason = input.inconsistencies[i].description
           /\ NamesAsDominant(call.result[k],
                              FirstHighest(input.inconsistencies[i].variants).approach)

\* The positions of the definitions that repeat the id of an earlier one.
RepeatsAnId(all) == {k \in 1..Len(all) : \E j \in 1..(k - 1) : all[j].id = all[k].id}

\* The positions of the definitions whose compilation raises.
FailsToCompile(all) ==
  {k \in 1..Len(all) : all[k].match.type \in MatchTypes /\ HoldsBadSource(all[k].match)}

\* The positions of the definitions that compile to zero matchers.
CompilesToNothing(all) ==
  {k \in 1..Len(all) : all[k].match.type \notin MatchTypes \/ NamesNoMatcher(all[k].match)}

\* How many errors of the kind name the id.
ErrorsNaming(errors, kind, id) ==
  Cardinality({e \in 1..Len(errors) : errors[e].kind = kind /\ errors[e].id = id})

\* The errors of the kind are one for each of the offending positions.
OneErrorForEach(errors, kind, all, offending) ==
  \A k \in 1..Len(all) :
     ErrorsNaming(errors, kind, all[k].id)
       = Cardinality({j \in offending : all[j].id = all[k].id})

\* C13: validateDefinitions reports valid = false exactly when a definition
\* repeats an id (across all four categories), compiles to zero matchers or
\* raises while compiling; it records an error for each offending definition,
\* checks the definitions after an offending one too, and returns.
ValidationReportsEveryOffender ==
  call.op = "validateDefinitions"
  => /\ call.valid <=> /\ RepeatsAnId(getDefinitions(defs)) = {}
                       /\ FailsToCompile(getDefinitions(defs)) = {}
                       /\ CompilesToNothing(getDefinitions(defs)) = {}
     /\ OneErrorForEach(call.errors, "duplicate", getDefinitions(defs),
                        RepeatsAnId(getDefinitions(defs)))
     /\ OneErrorForEach(call.errors, "failed", getDefinitions(defs),
                        FailsToCompile(getDefinitions(defs)))
     /\ OneErrorForEach(call.errors, "zero", getDefinitions(defs),
                        CompilesToNothing(getDefinitions(defs)))
     /\ Len(call.errors) = Cardinality(RepeatsAnId(getDefinitions(defs)))
                           + Cardinality(FailsToCompile(getDefinitions(defs)))
                           + Cardinality(CompilesToNothing(getDefinitions(defs)))

\* validateDefinitions has returned the errors of a table whose first
\* definition raises while compiling, whose second compiles to nothing and
\* whose third repeats an id.
ValidationKeptChecking ==
  /\ call.op = "validateDefinitions"
  /\ ~call.valid
  /\ 1 \in FailsToCompile(getDefinitions(defs))
  /\ 2 \in CompilesToNothing(getDefinitions(defs))
  /\ 3 \in RepeatsAnId(getDefinitions(defs))
  /\ Len(call.errors) >= 3

\* The line numbers, in push order, of the matches of the matcher's patterns.
PushedLines(matcher, code) ==
  Concat([p \in 1..Len(matcher.patterns) |->
            [m \in 1..Len(MatchAll(matcher.patterns[p], code)) |->
               LineNumber(code, MatchAll(matcher.patterns[p], code)[m].index)]])

\* Where a line number is pushed first.
FirstPush(pushed, line) == CHOOSE k \in 1..Len(pushed) :
                             pushed[k] = line /\ \A j \in 1..(k - 1) : pushed[j] # line

ConfidenceFor(distinctLines) ==
  IF distinctLines >= 3 THEN "high" ELSE IF distinctLines = 2 THEN "medium" ELSE "low"

\* The idiom reported for the matcher is what the pushed line numbers call for.
ReportedAsPushed(idiom, code, pushed) ==
  LET distinct == {pushed[k] : k \in 1..Len(pushed)}
      lines == [k \in 1..Len(idiom.locations) |-> idiom.locations[k].line]
  IN /\ \A j, k \in 1..Len(lines) : j # k => lines[j] # lines[k]
     /\ Len(lines) = Min(LocationCap, Cardinality(distinct))
     /\ idiom.confidence = ConfidenceFor(Cardinality(distinct))
     /\ \A k \in 1..Len(lines) :
           /\ lines[k] \in distinct
           /\ idiom.locations[k].code = Trim(Split(code)[lines[k]])
           /\ \A j \in 1..(k - 1) : FirstPush(pushed, lines[j]) < FirstPush(pushed, lines[k])
           /\ \A l \in distinct :
                 FirstPush(pushed, l) < FirstPush(pushed, lines[k])
                 => \E j \in 1..(k - 1) : lines[j] = l

IdiomsFor(id) == SelectSeq(call.result, LAMBDA d : d.id = id)

\* C15: detectPatterns reports one idiom for each rule with at least one match
\* and none for a rule without; the locations of an idiom are on pairwise
\* distinct lines, the first occurrence on a line being kept, at most 5 of
\* them are returned, and the confidence is high for 3 or more distinct lines
\* before the cap, medium for 2 and low for 1.  A buffer of n lines "await a"
\* has n distinct lines of the Async/Await idiom.
IdiomsAreReportedOncePerLine ==
  call.op = "detectPatterns"
  => /\ \A m \in 1..Len(patternMatchers) :
           /\ Len(IdiomsFor(patternMatchers[m].id))
                = (IF PushedLines(patternMatchers[m], input.code) = <<>> THEN 0 ELSE 1)
           /\ \A d \in 1..Len(IdiomsFor(patternMatchers[m].id)) :
                 ReportedAsPushed(IdiomsFor(patternMatchers[m].id)[d], input.code,
                                  PushedLines(patternMatchers[m], input.code))
     /\ Len(call.result) <= Len(patternMatchers)
     /\ LinesEqualTo(input.code, AwaitLine) = Len(Split(input.code))
          => /\ Len(IdiomsFor("CS-CODE001")) = 1
             /\ Len(IdiomsFor("CS-CODE001")[1].locations)
                  = Min(LocationCap, Len(Split(input.code)))
             /\ IdiomsFor("CS-CODE001")[1].confidence
                  = ConfidenceFor(Len(Split(input.code)))

\* detectPatterns has reported an idiom that matched twice on a line and on
\* more lines than the cap.
LocationsDedupedAndCapped ==
  /\ call.op = "detectPatterns"
  /\ \E d \in 1..Len(call.result) :
        /\ call.result[d].id = "CS-CODE001"
        /\ Len(call.result[d].locations) = LocationCap
        /\ call.result[d].confidence = "high"
        /\ Len(PushedLines(AsyncAwaitIdiom, input.code)) > Len(Split(input.code))
        /\ Len(Split(input.code)) > LocationCap

\* The variants of the detector with at least one match in the buffer, in
\* enumeration order, each with the number of its matches.
PresentVariants(detector, code) ==
  SelectSeq([v \in 1..Len(detector.variants) |->
               [approach |-> detector.variants[v].name,
                count |-> Len(MatchAll(detector.variants[v].pattern, code))]],
            LAMBDA v : v.count >= 1)

\* The finding lists the present variants, with their counts, and has the
\* severity their number calls for.
ListsThePresent(finding, present) ==
  /\ [v \in 1..Len(finding.variants) |->
        [approach |-> finding.variants[v].approach, count |-> finding.variants[v].count]]
       = present
  /\ finding.severity = (IF Len(present) >= 3 THEN "medium" ELSE "low")
  /\ \A v \in 1..Len(finding.variants) :
        Len(finding.variants[v].locations) = Min(VariantLocationCap, finding.variants[v].count)

\* The variants a buffer of the three style lines has.
StyleCounts(code) ==
  SelectSeq(<<[approach |-> "async/await", count |-> LinesEqualTo(code, AwaitLine)],
              [approach |-> "Promise chains", count |-> LinesEqualTo(code, ThenLine)],
              [approach |-> "Callbacks", count |-> LinesEqualTo(code, CallbackLine)]>>,
            LAMBDA v : v.count >= 1)

\* C16: detectInconsistencies emits exactly one finding for a concern when two
\* or more of its variants have a match, and none otherwise; the finding lists
\* exactly the variants with a match, in enumeration order, each with the
\* number of its matches as count; its severity is medium with three or more
\* variants present and low with exactly two.
OneFindingPerMixedConcern ==
  call.op = "detectInconsistencies"
  => /\ \A d \in 1..Len(inconsistencyDetectors) :
           /\ Len(FindingsFor(inconsistencyDetectors[d].id))
                = (IF Len(PresentVariants(inconsistencyDetectors[d], input.code)) >= 2
                   THEN 1 ELSE 0)
           /\ \A f \in 1..Len(FindingsFor(inconsistencyDetectors[d].id)) :
                 ListsThePresent(FindingsFor(inconsistencyDetectors[d].id)[f],
                                 PresentVariants(inconsistencyDetectors[d], input.code))
     /\ Len(call.result) <= Len(inconsistencyDetectors)
     /\ input.code \in StyleBuffers
          => /\ PresentVariants(MixedAsyncStyles, input.code) = StyleCounts(input.code)
             /\ Len(call.result) = (IF Len(StyleCounts(input.code)) >= 2 THEN 1 ELSE 0)

\* detectInconsistencies has reported Mixed Async Styles with three variants,
\* one of them with more matches than locations are kept.
ThreeVariantsFound ==
  /\ call.op = "detectInconsistencies"
  /\ Len(FindingsFor("CS-INC001")) = 1
  /\ Len(FindingsFor("CS-INC001")[1].variants) = 3
  /\ FindingsFor("CS-INC001")[1].severity = "medium"
  /\ FindingsFor("CS-INC001")[1].variants[1].count > VariantLocationCap

SuggestionsFor(id) == SelectSeq(call.result, LAMBDA g : g.id = id)

PriorityFor(count) ==
  IF count >= 5 THEN "high" ELSE IF count \in 3..4 THEN "medium" ELSE "low"

\* What the rule calls for with the given number of matches of its detector
\* and the given answer of its negative check: one suggestion with the
\* priority of the count, or none.
SuggestedAsCounted(rule, count, excluded) ==
  /\ Len(SuggestionsFor(rule.id))
       = (IF count >= (IF Has(rule, "threshold") THEN rule.threshold ELSE 1) /\ ~excluded
          THEN 1 ELSE 0)
  /\ \A g \in 1..Len(SuggestionsFor(rule.id)) :
        SuggestionsFor(rule.id)[g].priority = PriorityFor(count)

\* The buffer is lines "return null;" alone, or with one line "Ok(v)" more.
ReturnsNullOnly(code) ==
  \A k \in 1..Len(Split(code)) : Split(code)[k] \in {ReturnNullLine, Chars("Ok(v)")}

\* C17: generateSuggestions emits a suggestion for a rule exactly when the
\* detector of the rule matches at least threshold times (1 when the rule has
\* no threshold) and the negative check of the rule, if it has one, matches
\* nowhere in the buffer; it emits at most one suggestion per rule; the
\* priority is high for 5 or more matches, medium for 3 or 4, low otherwise.
\* In a buffer of n lines "return null;" the Result rule (threshold 2, not in
\* a buffer with Ok(...)) has n matches.
SuggestionsFollowTheThreshold ==
  call.op = "generateSuggestions"
  => /\ \A r \in 1..Len(suggestionRules) :
           SuggestedAsCounted(suggestionRules[r],
                              Len(MatchAll(suggestionRules[r].detect, input.code)),
                              /\ Has(suggestionRules[r], "notPresent")
                              /\ MatchAll(suggestionRules[r].notPresent, input.code) # <<>>)
     /\ Len(call.result) <= Len(suggestionRules)
     /\ ReturnsNullOnly(input.code)
          => /\ Len(SuggestionsFor("CS-SUG001"))
                  = (IF /\ LinesEqualTo(input.code, ReturnNullLine) >= 2
                        /\ LinesEqualTo(input.code, Chars("Ok(v)")) = 0
                     THEN 1 ELSE 0)
             /\ \A g \in 1..Len(SuggestionsFor("CS-SUG001")) :
                   SuggestionsFor("CS-SUG001")[g].priority
                     = PriorityFor(LinesEqualTo(input.code, ReturnNullLine))

\* generateSuggestions has held back the Result suggestion in a buffer with
\* enough matches for a high priority, because the buffer has Ok(...); a
\* suggestion of another rule is not what is asked about.
SuggestionHeldBack ==
  /\ call.op = "generateSuggestions"
  /\ ReturnsNullOnly(input.code)
  /\ LinesEqualTo(input.code, ReturnNullLine) >= 5
  /\ LinesEqualTo(input.code, Chars("Ok(v)")) = 1
  /\ SuggestionsFor("CS-SUG001") = <<>>

\* The priority number of a severity or priority word.
RankFor(word) == CASE word = "high" -> 1 [] word = "medium" -> 2 [] OTHER -> 3

\* What identifies an action item: whether it is for an inconsistency, its id,
\* its priority and its reason.
ItemKey(item) ==
  <<item.type = "fix_inconsistency", item.id, item.priority, item.reason>>

\* The keys of the items for the inconsistencies and then the suggestions
\* whose severity or priority word has the given rank, in input order.
ExpectedKeys(inconsistencies, suggestions, rank) ==
  [k \in 1..Len(SelectSeq(inconsistencies, LAMBDA i : RankFor(i.severity) = rank)) |->
     <<TRUE,
       "ACT-" \o SelectSeq(inconsistencies, LAMBDA i : RankFor(i.severity) = rank)[k].id,
       rank,
       SelectSeq(inconsistencies, LAMBDA i : RankFor(i.severity) = rank)[k].description>>]
  \o [k \in 1..Len(SelectSeq(suggestions, LAMBDA g : RankFor(g.priority) = rank)) |->
        <<FALSE,
          "ACT-" \o SelectSeq(suggestions, LAMBDA g : RankFor(g.priority) = rank)[k].id,
          rank,
          SelectSeq(suggestions, LAMBDA g : RankFor(g.priority) = rank)[k].suggestedApproach.why>>]

KeysOf(items) == [k \in 1..Len(items) |-> ItemKey(items[k])]

\* C18: generateActionItems produces exactly one item for each inconsistency
\* and each suggestion, with priority 1, 2, 3 for high, medium, low; the items
\* are in ascending priority, and items of equal priority keep the insertion
\* order: those of inconsistencies before those of suggestions, each group in
\* input order.
ItemsAreOrderedByPriority ==
  call.op = "generateActionItems"
  => /\ Len(call.result) = Len(input.inconsistencies) + Len(input.suggestions)
     /\ \A j, k \in 1..Len(call.result) :
           j < k => call.result[j].priority <= call.result[k].priority
     /\ KeysOf(call.result)
          = ExpectedKeys(input.inconsistencies, input.suggestions, 1)
            \o ExpectedKeys(input.inconsistencies, input.suggestions, 2)
            \o ExpectedKeys(input.inconsistencies, input.suggestions, 3)

\* generateActionItems has put the item of a suggestion ahead of the item of
\* an inconsistency of lower priority, and has items of an inconsistency and
\* of a suggestion with the same priority.
ItemsInterleaved ==
  /\ call.op = "generateActionItems"
  /\ Len(call.result) = 2 * MaxFindings
  /\ call.result[1].type # "fix_inconsistency"
  /\ \E j, k \in 1..Len(call.result) :
        /\ j < k
        /\ call.result[j].priority = 2
        /\ call.result[k].priority = 2
        /\ call.result[j].type = "fix_inconsistency"
        /\ call.result[k].type # "fix_inconsistency"

\* ---------------------------------------------------- properties: analyzeCode

\* The issues the four analyzers give for the buffer, combined in the order
\* security, deceptive, placeholder, error.
CombinedIssues(code, filename) ==
  Concat([k \in 1..Len(AnalyzerOrder) |->
            analyzeWithPatterns(defs, NullCache, <<>>, code, filename,
                                AnalyzerOrder[k]).issues])

SeverityRanks == <<"critical", "high", "medium", "low", "info">>

RankOf(severity) == CHOOSE r \in 1..Len(SeverityRanks) : SeverityRanks[r] = severity

OfSeverity(issues, severity) == SelectSeq(issues, LAMBDA i : i.severity = severity)

\* C14: analyzeCode returns the issues ordered by severity, critical first,
\* then high, medium, low and info; issues of equal severity keep the order
\* of the concatenation security, deceptive, placeholder, error.
IssuesAreOrderedBySeverity ==
  (call.op = "analyzeCode" /\ call.outcome = "returned")
  => /\ \A j, k \in 1..Len(call.issues) :
           j < k => RankOf(call.issues[j].severity) <= RankOf(call.issues[k].severity)
     /\ \A r \in 1..Len(SeverityRanks) :
           OfSeverity(call.issues, SeverityRanks[r])
             = OfSeverity(CombinedIssues(call.code, call.filename), SeverityRanks[r])

\* analyzeCode has returned issues of two categories with the same severity
\* and has moved an issue of a later category ahead of one of an earlier one.
EqualSeveritiesAcrossAnalyzers ==
  /\ call.op = "analyzeCode"
  /\ call.outcome = "returned"
  /\ call.issues # CombinedIssues(call.code, call.filename)
  /\ \E j, k \in 1..Len(call.issues) :
        /\ j < k
        /\ call.issues[j].severity = call.issues[k].severity
        /\ call.issues[j].category # call.issues[k].category

\* ------------------------------------------- properties: the deceptive rules

\* The last call was a deceptive scan of the buffer, and it returned.
DeceptiveScanOf(code) ==
  /\ call.op = "analyzeWithPatterns"
  /\ call.category = "deceptive"
  /\ call.outcome = "returned"
  /\ call.code = code

\* The scan gave exactly one finding, of category deceptive and the severity.
OneDeceptiveFinding(severity) ==
  /\ Len(call.issues) = 1
  /\ call.issues[1].category = "deceptive"
  /\ call.issues[1].severity = severity

\* C19: a deceptive scan of `try { risky(); } catch (e) { }` gives exactly
\* one finding, of category deceptive and severity high; so does every handler
\* with a parameter list and a body of white space alone.
EmptyCatchIsOneHighFinding ==
  /\ (call.op = "analyzeWithPatterns" /\ call.code = EmptyCatchExample)
       => (call.outcome = "returned" /\ OneDeceptiveFinding("high"))
  /\ \A param \in {"(e) ", "(error)"}, body \in {"", " ", "\n"} :
        DeceptiveScanOf(Chars("try { risky(); } catch ") \o Chars(param) \o <<"{">>
                        \o Chars(body) \o <<"}">>)
        => OneDeceptiveFinding("high")

\* The empty-catch example has been scanned and the empty-catch rule fired.
EmptyCatchScanned ==
  /\ DeceptiveScanOf(EmptyCatchExample)
  /\ \E j \in 1..Len(call.issues) : call.issues[j].id = "CS-DEC001"

\* C20: a deceptive scan of `const users = response.data || [];` gives
\* exactly one finding, of category deceptive and severity medium, and a scan
\* of `const users = response.data || computeDefault();` gives none; nor does
\* any other operator or spacing in front of computeDefault().
EmptyArrayFallbackIsOneMediumFinding ==
  /\ (call.op = "analyzeWithPatterns" /\ call.code = FallbackExample)
       => (call.outcome = "returned" /\ OneDeceptiveFinding("medium"))
  /\ (call.op = "analyzeWithPatterns" /\ call.code = ComputedDefaultExample)
       => (call.outcome = "returned" /\ call.issues = <<>>)
  /\ \A op \in {"||", "??", "&&"}, sp \in {<<>>, <<" ">>}, end \in {<<>>, <<";">>} :
        DeceptiveScanOf(Chars("const users = response.data ") \o Chars(op) \o sp
                        \o Chars("computeDefault()") \o end)
        => call.issues = <<>>

\* The fallback example has been scanned and the empty-array rule fired.
FallbackScanned ==
  /\ DeceptiveScanOf(FallbackExample)
  /\ \E j \in 1..Len(call.issues) : call.issues[j].id = "CS-DEC020"

\* ---------------------------------------------- properties: the security rules

\* sub occurs in s.
Within(sub, s) ==
  \E j \in 0..(Len(s) - Len(sub)) : SubSeq(s, j + 1, j + Len(sub)) = sub

\* The last call was a security scan of a buffer that holds "sk-" followed by
\* 48 letters and digits.
KeyScanned ==
  /\ call.op = "analyzeWithPatterns"
  /\ call.category = "security"
  /\ Within(OpenAiKey(OpenAiKeyLength), call.code)

\* Every command of the finding whose template held <filename> holds the
\* filename of the scan as written.
CommandsNameTheFile(issue, filename) ==
  (Has(issue, "verification") /\ Has(issue.verification, "commands"))
    => LET templates == DefinitionOf(issue.id).verification.commands
       IN \A k \in 1..Len(templates) :
             Within(FilenameTag, templates[k])
               => Within(filename, issue.verification.commands[k])

\* C21: a security scan of a buffer that contains "sk-" followed by 48 letters
\* and digits gives exactly one finding, of category security and severity
\* critical, and each of its commands that had <filename> in the template
\* contains the filename passed to the scan.
KeyIsOneCriticalFindingNamingTheFile ==
  KeyScanned
    => /\ call.outcome = "returned"
       /\ Len(call.issues) = 1
       /\ call.issues[1].category = "security"
       /\ call.issues[1].severity = "critical"
       /\ CommandsNameTheFile(call.issues[1], call.filename)

\* ------------------------------------------------- properties: the scan loops

\* Every compiled rule the scan went through has at least one matcher.
EveryRuleHasAMatcher ==
  /\ compiledCache # NullCache
  /\ LET rules == CachedRules(compiledCache, call.category)
     IN \A r \in 1..Len(rules) : Len(rules[r].patterns) >= 1

\* C22: an analyzeWithPatterns call on a compiled rule set in which every rule
\* has at least one matcher ends and returns a finding list: no matcher loop
\* runs for ever.
EveryScanReturns ==
  (call.op = "analyzeWithPatterns" /\ call.outcome # "threw" /\ EveryRuleHasAMatcher)
    => call.outcome = "returned"

\* ---------------------------------------------- properties: the finding list

\* The matches a scan takes from one matcher: for a global or sticky matcher
\* the leftmost match from the start, then the leftmost match from the end of
\* the one before, until none remains; the first alone when it is not global.
RECURSIVE SuccessiveMatches(_, _, _)
SuccessiveMatches(rx, s, from) ==
  LET at == FirstHit(rx, s, from)
  IN IF at = -1 THEN <<>>
     ELSE LET end == Ends(rx.re, s, at, rx.flags)[1]
          IN <<[index |-> at, end |-> end]>>
             \o (IF "g" \in rx.flags /\ end > from
                 THEN SuccessiveMatches(rx, s, end) ELSE <<>>)

\* The matches taken by every matcher of every rule, rule by rule and matcher
\* by matcher, each with the rule it belongs to.
MatchesTaken(rules, code) ==
  Concat([r \in 1..Len(rules) |->
            Concat([k \in 1..Len(rules[r].patterns) |->
                      LET q == SuccessiveMatches(rules[r].patterns[k], code, 0)
                      IN [j \in 1..Len(q) |-> [rule |-> r, matcher |-> k, id |-> rules[r].id,
                                               index |-> q[j].index, end |-> q[j].end]]])])

\* q is in rule order, then matcher order, then ascending offset without
\* overlap, and a matcher that is not global appears at most once.
InScanOrder(rules, q) ==
  \A i \in 1..Len(q), j \in 1..Len(q) :
     i < j =>
       \/ q[i].rule < q[j].rule
       \/ q[i].rule = q[j].rule /\ q[i].matcher < q[j].matcher
       \/ /\ q[i].rule = q[j].rule /\ q[i].matcher = q[j].matcher
          /\ q[i].end <= q[j].index
          /\ "g" \in rules[q[i].rule].patterns[q[i].matcher].flags

ListIsTheMatchesTaken(rules, taken) ==
  /\ InScanOrder(rules, taken)
  /\ Len(call.issues) = Len(taken)
  /\ Len(call.matches) = Len(taken)
  /\ \A j \in 1..Len(taken) :
        /\ call.issues[j].id = taken[j].id
        /\ call.issues[j].line = 1 + LineBreaksBefore(call.code, taken[j].index)
        /\ call.matches[j] = [index |-> taken[j].index, end |-> taken[j].end]

\* C23: the list a scan returns holds one Issue per match taken, in rule
\* order, then matcher order, then ascending offset: the successive
\* non-overlapping matches of a global matcher, the first match alone of a
\* matcher that is not global, nothing left out when two rules or two matchers
\* of a rule match the same text.
FindingsAreTheMatchesInOrder ==
  (call.op = "analyzeWithPatterns" /\ call.outcome = "returned")
    => ListIsTheMatchesTaken(CachedRules(compiledCache, call.category),
                             MatchesTaken(CachedRules(compiledCache, call.category),
                                          call.code))

\* A scan in which two rules matched the same text, two matchers of one rule
\* matched overlapping text, a global matcher matched twice and a matcher
\* that is not global had a second match to leave.
SameTextMatchedTwice ==
  /\ call.op = "analyzeWithPatterns" /\ call.outcome = "returned"
  /\ \E i, j \in 1..Len(call.issues) :
        /\ i < j /\ call.matches[i] = call.matches[j]
        /\ call.issues[i].id # call.issues[j].id
  /\ \E i, j \in 1..Len(call.issues) :
        /\ i < j /\ call.issues[i].id = "CS-SEC003" /\ call.issues[j].id = "CS-SEC003"
        /\ call.matches[j].index < call.matches[i].end
  /\ Cardinality({j \in 1..Len(call.issues) : call.issues[j].id = "CS-SEC001"}) >= 2
  /\ Cardinality({j \in 1..Len(call.issues) : call.issues[j].id = "CS-SEC002"}) = 1

\* --------------------------------------------- properties: concurrent requests

\* C24: with any number of tool requests queued at once, every request
\* handled gets the findings (and the summary) it gets when it is the only
\* request of a freshly started server, whatever the requests handled before
\* it left in the shared matchers.
RequestsDoNotDisturbEachOther ==
  call.op = "analyze_code"
    => LET alone == analyzeCode(defs, NullCache, <<>>, call.code, call.filename)
       IN /\ call.outcome = "returned"
          /\ ~alone.threw /\ ~alone.diverges
          /\ call.issues = alone.issues
          /\ call.summary = alone.summary

\* A request with findings was handled after two others, on the cache the
\* first built, with a matcher left at a position other than 0.
HandledOnUsedMatchers ==
  /\ call.op = "analyze_code"
  /\ nCalls = MaxCalls
  /\ ~call.built
  /\ call.issues # <<>>
  /\ \E c \in DOMAIN lastIndex :
        \E r \in 1..Len(lastIndex[c]) : \E k \in 1..Len(lastIndex[c][r]) :
           lastIndex[c][r][k] # 0

\* ------------------------------------------- properties: the generate_report tool

\* C25: the score printed in the markdown summary of generate_report is the
\* score of the embedded HTML report, and both are 100 - 25 critical - 15 high
\* - 5 medium - low + 2 strengths, kept within 0..100.
SummaryScoreIsTheReportScore ==
  call.op = "generate_report"
    => LET c == call.summary
           raw == 100 - 25 * c.critical - 15 * c.high - 5 * c.medium - c.low
                  + 2 * c.strengths
           documented == IF raw < 0 THEN 0 ELSE IF raw > 100 THEN 100 ELSE raw
       IN /\ call.answer.score = call.answer.html.score
          /\ call.answer.score = documented
          /\ call.answer.html.score = documented

\* --------------------------------------------------- properties: the summary

\* C26: in every AnalysisResult the four severity counts of the summary are
\* the numbers of issues of that severity, strengths is the number of
\* strengths, and totalIssues is the number of issues, those of severity info
\* included.
SummaryCountsTheResult ==
  (call.op = "analyzeCode" /\ call.outcome = "returned")
    => LET n(severity) ==
             Cardinality({j \in 1..Len(call.issues) : call.issues[j].severity = severity})
       IN /\ call.summary.critical = n("critical")
          /\ call.summary.high = n("high")
          /\ call.summary.medium = n("medium")
          /\ call.summary.low = n("low")
          /\ call.summary.strengths = Len(call.strengths)
          /\ call.summary.totalIssues = Len(call.issues)
          /\ call.summary.totalIssues
               = n("critical") + n("high") + n("medium") + n("low") + n("info")

\* An analysis with strengths and with an issue of severity info.
SummaryWithStrengthsAndInfo ==
  /\ call.op = "analyzeCode" /\ call.outcome = "returned"
  /\ call.summary.strengths >= 2
  /\ \E j \in 1..Len(call.issues) : call.issues[j].severity = "info"
  /\ call.summary.totalIssues > call.summary.critical + call.summary.high
                                + call.summary.medium + call.summary.low

\* ------------------------------------------- properties: the steps of an item

\* The steps are numbered 1..n for the n variants of the finding; the first
\* adopts a variant of the highest count and states that count; every other
\* variant has exactly one step, which states its count and converts to the
\* adopted variant.
StepsFit(steps, variants) ==
  /\ Len(steps) = Len(variants)
  /\ \A k \in 1..Len(steps) : steps[k].order = k
  /\ steps[1].instruction[1] = "Adopt"
  /\ \E d \in 1..Len(variants) :
        /\ \A j \in 1..Len(variants) : variants[j].count <= variants[d].count
        /\ steps[1].instruction[2] = variants[d].approach
        /\ steps[1].instruction[4] = variants[d].count
  /\ \A j \in 1..Len(variants) :
        Cardinality({k \in 2..Len(steps) :
                       /\ steps[k].instruction[1] = "Convert"
                       /\ steps[k].instruction[4] = variants[j].approach
                       /\ steps[k].instruction[2] = variants[j].count
                       /\ steps[k].instruction[6] = steps[1].instruction[2]})
          = IF variants[j].approach = steps[1].instruction[2] THEN 0 ELSE 1

\* Every item made from an inconsistency fits one of the findings with its id.
ItemsFit(items, findings) ==
  /\ Cardinality({k \in 1..Len(items) : items[k].type = "fix_inconsistency"})
       = Len(findings)
  /\ \A k \in 1..Len(items) :
        items[k].type = "fix_inconsistency"
          => \E f \in 1..Len(findings) :
                /\ items[k].id = "ACT-" \o findings[f].id
                /\ StepsFit(items[k].steps, findings[f].variants)

\* C27: the action item made from an inconsistency has steps numbered 1..n
\* without gaps, n being the number of variants; step 1 names the variant with
\* the highest count and that count, and each other variant has exactly one
\* step, which states its own count.
StepsCoverEveryVariant ==
  /\ (call.op = "generateActionItems" /\ call.outcome = "returned")
       => ItemsFit(call.result, input.inconsistencies)
  /\ (call.op = "analyzePatterns" /\ call.outcome = "returned")
       => ItemsFit(call.result.actionItems, call.result.inconsistencies)

\* An item was made from a finding with four variants whose most used variant
\* is not the first listed.
FourVariantsStandardized ==
  /\ call.op = "generateActionItems" /\ call.outcome = "returned"
  /\ \E k \in 1..Len(call.result) :
        /\ call.result[k].type = "fix_inconsistency"
        /\ Len(call.result[k].steps) = 4
        /\ \E f \in 1..Len(input.inconsistencies) :
              /\ Len(input.inconsistencies[f].variants) = 4
              /\ call.result[k].steps[1].instruction[2]
                   # input.inconsistencies[f].variants[1].approach

\* ------------------------------------------ properties: the cached templates

ScanStep == call'.op = "analyzeWithPatterns" /\ nCalls' = nCalls + 1

\* The commands of every finding are the commands of its definition with the
\* matched text and the filename of this scan substituted.
CommandsComeFromTheTemplates ==
  Returned("analyzeWithPatterns") =>
    \A j \in 1..Len(call.issues) :
      LET definition == DefinitionOf(call.issues[j].id)
      IN /\ Has(call.issues[j], "verification") <=> Has(definition, "verification")
         /\ Has(definition, "verification")
              => call.issues[j].verification
                   = SubstituteVerification(definition.verification, MatchedText(j),
                                            call.filename)

\* C28: a scan leaves the cached compiled rules as they were compiled from the
\* definitions (ids, titles, severities, categories, matchers, and command
\* templates with their placeholders); the verification of a finding is a
\* record of its own, so a later scan substitutes its own filename.
ScansLeaveTheTemplates ==
  /\ [][(ScanStep /\ compiledCache # NullCache) => compiledCache' = compiledCache]_vars
  /\ [](compiledCache # NullCache => compiledCache = BuildCache(defs).cache)
  /\ []CommandsComeFromTheTemplates

\* A scan on a cache that earlier calls used gave a finding whose commands
\* name its filename where the template has the placeholder.
LaterScanNamesItsFile ==
  /\ Returned("analyzeWithPatterns")
  /\ nCalls = MaxCalls
  /\ ~call.built
  /\ call.filename = PlainFilename
  /\ \E j \in 1..Len(call.issues) :
        /\ Has(call.issues[j], "verification")
        /\ Has(call.issues[j].verification, "commands")
        /\ \E k \in 1..Len(call.issues[j].verification.commands) :
              /\ Within(FilenameTag, DefinitionOf(call.issues[j].id).verification.commands[k])
              /\ Within(PlainFilename, call.issues[j].verification.commands[k])
              /\ ~Within(FilenameTag, call.issues[j].verification.commands[k])

\* ------------------------------------------- properties: the advisory result

\* The values of q, each as often as it occurs.
BagOf(q) == [x \in {q[k] : k \in 1..Len(q)} |-> Cardinality({k \in 1..Len(q) : q[k] = x})]

\* C29: in every analyzePatterns result the three counts of the summary are
\* the lengths of the lists returned, actionItems has one entry for every
\* returned inconsistency and suggestion, with the id ACT- followed by its id,
\* and for a level other than all every returned idiom, inconsistency and
\* suggestion has that level.
SummaryAndItemsFollowTheLists ==
  (call.op = "analyzePatterns" /\ call.outcome = "returned")
    => LET r == call.result
           found == r.inconsistencies \o r.suggestions
       IN /\ r.summary.patternsDetected = Len(r.detectedPatterns)
          /\ r.summary.inconsistencies = Len(r.inconsistencies)
          /\ r.summary.suggestions = Len(r.suggestions)
          /\ Len(r.actionItems) = Len(r.inconsistencies) + Len(r.suggestions)
          /\ BagOf([k \in 1..Len(r.actionItems) |-> r.actionItems[k].id])
               = BagOf([k \in 1..Len(found) |-> "ACT-" \o found[k].id])
          /\ r.level = input.level
          /\ r.level # "all"
               => /\ \A k \in 1..Len(r.detectedPatterns) : r.detectedPatterns[k].level = r.level
                  /\ \A k \in 1..Len(r.inconsistencies) : r.inconsistencies[k].level = r.level
                  /\ \A k \in 1..Len(r.suggestions) : r.suggestions[k].level = r.level

\* An analysis at one level returned findings while the buffer has findings
\* of another level, which it left out.
LevelFilteredSomethingOut ==
  /\ call.op = "analyzePatterns" /\ call.outcome = "returned"
  /\ call.result.level = "code"
  /\ call.result.actionItems # <<>>
  /\ call.result.inconsistencies # <<>>
  /\ Len(call.result.suggestions)
       < Len(generateSuggestions(input.code, detectPatterns(input.code)))


\* ------------------------------------------ properties: the shipped definitions
AllShipped == getDefinitions(ShippedTable)

IdsPairwiseDistinct(allDefs) ==
  \A j, k \in 1..Len(allDefs) : j # k => allDefs[j].id # allDefs[k].id

CompilesToAMatcher(def) ==
  LET c == compileDefinition(def)
  IN ~c.threw /\ Len(c.compiled.patterns) >= 1

\* C30: for the shipped security, deceptive, placeholder and error lists,
\* validateDefinitions returns valid = true with no errors; the ids of the
\* four lists are pairwise distinct and every definition compiles, without
\* throwing, to at least one matcher.
ShippedDefinitionsAreValid ==
  defs = ShippedTable =>
    /\ IdsPairwiseDistinct(AllShipped)
    /\ \A k \in 1..Len(AllShipped) : CompilesToAMatcher(AllShipped[k])
    /\ call.op = "validateDefinitions" => call.valid /\ call.errors = <<>>

\* validateDefinitions has returned for the shipped lists after one category
\* of them was compiled into the cache.
ShippedDefinitionsValidated ==
  /\ defs = ShippedTable
  /\ call.op = "validateDefinitions"
  /\ builds >= 1
  /\ Len(AllShipped) = Len(securityDefinitions) + Len(deceptiveDefinitions)
                       + Len(placeholderDefinitions) + Len(errorDefinitions)

=============================================================================
